---- MODULE Spec2Model ----
(***************************************************************************)
(* Model of strapi-plugin-cm-subnav-stacker (admin side).                  *)
(*                                                                         *)
(*  - the Descriptor Normalizer (formatContentTypes, extractSortOrder,     *)
(*    getContentTypeGroup) as operators over strings, a string being a     *)
(*    sequence of one-character strings;                                   *)
(*  - the Grouping Engine (organizeByGroups) and the permission filter of  *)
(*    fetchContentTypes as operators over descriptor lists, and the        *)
(*    grouping runs of initialize that apply them;                         *)
(*  - the Host Synchronization Controller (index.ts register,              *)
(*    buildNavigation, setupNavigationReplacement, processNavigation,      *)
(*    setupContinuousNavigationCheck, the NavigationApp effects) as a      *)
(*    state machine over an abstract host DOM;                             *)
(*  - the presentation (getPluginConfig, the three navigation components   *)
(*    and their group sections and links) as operators that give the       *)
(*    rendered tree, and the view runs of one NavigationApp over them;     *)
(*  - the label cleaning (cleanHeaderText) as an operator over strings and *)
(*    the runs of cleanHeaderElement on one label.                         *)
(*                                                                         *)
(* Of the DOM the controller model keeps what the controller's decisions   *)
(* read: the nav, its ol elements, the display of the host li and of the   *)
(* category headers, the search input, the injected container and the      *)
(* markup each NavigationApp has rendered. There the label-cleaning        *)
(* observers are counted, and a mounted NavigationApp is one whose path    *)
(* poll and body observer are live; the label text and the links with      *)
(* their highlight are the subject of the cleaning runs and the view runs. *)
(***************************************************************************)
EXTENDS Integers, Sequences, FiniteSets, TLC

VARIABLES
  \* ---- normalizer run (formatContentTypes called once on a raw listing)
  nPhase,      \* "idle" | "input" | "done"; of a grouping run:
               \* "input" | "fetched" | "replayed"
  nDelimiter,  \* the delimiter handed to formatContentTypes
  nRaw,        \* the argument object: [hasData, data], data a sequence of raw records
  nOut,        \* what the call gave: [threw, list], list a sequence of descriptors
  \* ---- grouping run (initialize of one NavigationApp, its fetches answered)
  nPermissions,  \* window.strapiPermissions (<<>>: unset or empty)
  nAnswer,       \* what the permissions endpoint answers: [ok, list]
  nAllowed,      \* window.strapiContentTypes (<<>>: unset or empty)
  nGroups        \* the groups state of the NavigationApp

normVars == <<nPhase, nDelimiter, nRaw, nOut,
              nPermissions, nAnswer, nAllowed, nGroups>>

VARIABLES
  \* ---- the two enablement probes (index.ts register, module load)
  regProbe,               \* "pending" | "ok" | "notok" | "error"
  modProbe,
  \* ---- window globals
  navigationInitialized,  \* window.navigationInitialized
  checkInterval,          \* live 100ms intervals (window.checkNavigationInterval)
  headerObservers,        \* connected label-cleaning observers
  reinitExposed,          \* window.reinitializeNavigation is set
  cache,                  \* window.strapiContentTypes is a non-empty list
  template,               \* the template the config endpoint serves
  \* ---- the page
  path,                   \* window.location.pathname, as its segments
  nav,                    \* the page holds a nav element
  ols,                    \* the host's ol elements inside nav, in document order
  hostLi,                 \* style.display of each host li that is a child of an ol
  headersHidden,          \* the Collection Types / Single Types headers are display:none
  input,                  \* the element `${navQuery} input` finds: [present, value]
  containers,             \* attached elements with id stack-nav-container: [id, ol]
  apps                    \* the NavigationApp instances rendered so far:
                          \*   node       the container rendered into, NoNode once
                          \*              that node left the document
                          \*   mountPath  the pathname the effect closure holds
                          \*   isSearching, load ("config" | "fetching" | "some" |
                          \*              "empty" | "failed": where initialize() is)
                          \*   bound      the 'input' listener and value observer:
                          \*              "none" | "current" | "stale" (on an input
                          \*              that left the document)
                          \*   mounted    the effect cleanups have not run
                          \*   tree       the rendered markup: "none" | "shown" |
                          \*              "hidden" (its li are display:none) |
                          \*              "wiped" (removed by the host)

ctlVars == <<regProbe, modProbe, navigationInitialized, checkInterval,
             headerObservers, reinitExposed, cache, template, path, nav, ols,
             hostLi, headersHidden, input, containers, apps>>

VARIABLES
  \* ---- label cleaning (the text of the h1 under div[data-strapi-header])
  label,       \* h1Element.textContent
  cleanRuns,   \* how many times the text was cleaned
  \* ---- what one NavigationApp shows (a view run)
  vConfig,     \* [env, served]: CM_SUBNAV_STACKER_TEMPLATE of the build and
               \* the template field of the /config answer
  vTemplate,   \* the template state (NoValue: null)
  vPath,       \* window.location.pathname, as a string
  vSearching,  \* the isSearching state
  vTree,       \* the rendered sections: [variant, name, links, expanded, asMain],
               \* links a sequence of [uid, active]; <<>>: nothing rendered
  vBefore,     \* history: the sections as they were when search mode began
  \* ---- initialize calls in flight (overlapping initializations)
  inits        \* one record per call: [pc, contentTypes, groups], pc the
               \* await it stands at: "config" | "listing" | "permissions",
               \* or "done"

viewVars == <<label, cleanRuns, vConfig, vTemplate, vPath, vSearching, vTree,
              vBefore, inits>>

vars == <<normVars, ctlVars, viewVars>>

(***************************************************************************)
(* Strings                                                                 *)
(***************************************************************************)
Digits == {"0", "1", "2", "3", "4", "5", "6", "7", "8", "9"}

\* \d of the regular expressions
IsDigit(c) == c \in Digits

\* \s of the regular expressions, and what String.prototype.trim removes
IsSpace(c) == c \in {" ", "\t"}

DigitVal(c) ==
  CASE c = "0" -> 0 [] c = "1" -> 1 [] c = "2" -> 2 [] c = "3" -> 3
    [] c = "4" -> 4 [] c = "5" -> 5 [] c = "6" -> 6 [] c = "7" -> 7
    [] c = "8" -> 8 [] c = "9" -> 9

\* parseInt(digits, 10) on a non-empty run of decimal digits
RECURSIVE parseInt(_)
parseInt(ds) ==
  IF ds = <<>> THEN 0
  ELSE 10 * parseInt(SubSeq(ds, 1, Len(ds) - 1)) + DigitVal(ds[Len(ds)])

\* length of the longest run of digits of s that starts at position i
RECURSIVE DigitRun(_, _)
DigitRun(s, i) ==
  IF i <= Len(s) /\ IsDigit(s[i]) THEN 1 + DigitRun(s, i + 1) ELSE 0

\* length of the longest run of whitespace of s that starts at position i
RECURSIVE SpaceRun(_, _)
SpaceRun(s, i) ==
  IF i <= Len(s) /\ IsSpace(s[i]) THEN 1 + SpaceRun(s, i + 1) ELSE 0

\* s.slice(n): s without its first n characters
Drop(s, n) == SubSeq(s, n + 1, Len(s))

\* s.startsWith(p)
startsWith(s, p) == Len(p) <= Len(s) /\ SubSeq(s, 1, Len(p)) = p

\* s.indexOf(d) + 1 for a non-empty d: the first position where d occurs, 0 if none
IndexOf(s, d) ==
  LET hits == {i \in 1..Len(s) : startsWith(Drop(s, i - 1), d)}
  IN IF hits = {} THEN 0 ELSE CHOOSE i \in hits : \A j \in hits : i <= j

\* s.trim()
trim(s) ==
  LET keep == {i \in 1..Len(s) : ~IsSpace(s[i])}
  IN IF keep = {} THEN <<>>
     ELSE LET lo == CHOOSE i \in keep : \A j \in keep : i <= j
              hi == CHOOSE i \in keep : \A j \in keep : j <= i
          IN SubSeq(s, lo, hi)

(***************************************************************************)
(* Descriptor Normalizer                                                   *)
(***************************************************************************)
\* the match of /^\[(\d+)\]\s*/ : 0 when the name does not match, else the
\* number of digits captured
HintDigits(displayName) ==
  IF Len(displayName) >= 3 /\ displayName[1] = "["
  THEN LET n == DigitRun(displayName, 2)
       IN IF n >= 1 /\ Len(displayName) >= n + 2 /\ displayName[n + 2] = "]"
          THEN n ELSE 0
  ELSE 0

\* a plausible slip: the hint is parsed but the name is returned unstripped
extractSortOrderKeepHint(displayName, defaultSortOrder) ==
  LET n == HintDigits(displayName)
  IN IF n > 0
     THEN [sortOrder |-> parseInt(SubSeq(displayName, 2, n + 1)),
           cleanDisplayName |-> displayName]
     ELSE [sortOrder |-> defaultSortOrder, cleanDisplayName |-> displayName]

extractSortOrder(displayName, defaultSortOrder) ==
  LET n == HintDigits(displayName)
  IN IF n > 0
     THEN [sortOrder |-> parseInt(SubSeq(displayName, 2, n + 1)),
           cleanDisplayName |->
             Drop(displayName, n + 2 + SpaceRun(displayName, n + 3))]
     ELSE [sortOrder |-> defaultSortOrder, cleanDisplayName |-> displayName]

\* text.replace(/^\[(\d+)\]\s*/, ''): one hint at the start of the text goes,
\* with the whitespace behind it
cleanHeaderText(text) ==
  LET n == HintDigits(text)
  IN IF n > 0 THEN Drop(text, n + 2 + SpaceRun(text, n + 3)) ELSE text

\* a plausible slip: the first segment is taken as it is, the .map(trim) left out
getContentTypeGroupNoTrim(delimiter, displayName) ==
  LET i == IndexOf(displayName, delimiter)
  IN IF i = 0 THEN displayName ELSE SubSeq(displayName, 1, i - 1)

\* displayName.split(delimiter).map(trim)[0]
getContentTypeGroup(delimiter, displayName) ==
  LET i == IndexOf(displayName, delimiter)
  IN trim(IF i = 0 THEN displayName ELSE SubSeq(displayName, 1, i - 1))

NsApi == <<"a", "p", "i", ":", ":">>
NsPlugin == <<"p", "l", "u", "g", "i", "n", ":", ":">>

\* a plausible slip: plugin content types are forgotten
IsRetainedApiOnly(uid) == startsWith(uid, NsApi)

\* the filter of formatContentTypes
IsRetained(uid) == startsWith(uid, NsApi) \/ startsWith(uid, NsPlugin)

\* schema.displayName absent from a raw record
Missing == <<"undefined">>

DefaultDelimiter == <<" ", "|", " ">>

HrefSingle == <<"/admin/content-manager/single-types/">>
HrefCollection == <<"/admin/content-manager/collection-types/">>

\* the .map callback of formatContentTypes on one retained record; || takes
\* apiID for an absent and for an empty schema.displayName
formatOne(delimiter, ct, defaultSortOrder) ==
  LET displayName == IF ct.schema.displayName \notin {Missing, <<>>}
                     THEN ct.schema.displayName ELSE ct.apiID
      ex == extractSortOrder(displayName, defaultSortOrder)
      groupName == getContentTypeGroup(delimiter, ex.cleanDisplayName)
      prefix == groupName \o delimiter
      newDisplayName == IF startsWith(ex.cleanDisplayName, prefix)
                        THEN Drop(ex.cleanDisplayName, Len(prefix))
                        ELSE ex.cleanDisplayName
  IN [uid |-> ct.uid,
      name |-> ct.apiID,
      displayName |-> newDisplayName,
      group |-> groupName,
      isDisplayed |-> TRUE,
      href |-> (IF ct.schema.kind = "singleType" THEN HrefSingle
                ELSE HrefCollection) \o ct.uid,
      kind |-> ct.schema.kind,
      sortOrder |-> ex.sortOrder]

\* data is the argument object: hasData says whether data.data is there, a
\* raw record is [uid, apiID, schema |-> [present, displayName, kind]].  The
\* value is [threw, list]: reading ct.schema.displayName of a record without
\* schema is a TypeError that ends the whole call.
formatContentTypes(delimiter, data) ==
  IF ~data.hasData THEN [threw |-> FALSE, list |-> <<>>]
  ELSE LET defaultSortOrder == Len(data.data) + 1000
           kept == SelectSeq(data.data, LAMBDA ct : IsRetained(ct.uid))
       IN IF \E i \in 1..Len(kept) : ~kept[i].schema.present
          THEN [threw |-> TRUE, list |-> <<>>]
          ELSE [threw |-> FALSE,
                list |-> [i \in 1..Len(kept) |->
                            formatOne(delimiter, kept[i], defaultSortOrder)]]

(***************************************************************************)
(* Grouping Engine                                                         *)
(***************************************************************************)
General == <<"G", "e", "n", "e", "r", "a", "l">>

Lower == <<"a", "b", "c", "d", "e", "f", "g", "h", "i", "j", "k", "l", "m",
           "n", "o", "p", "q", "r", "s", "t", "u", "v", "w", "x", "y", "z">>
Upper == <<"A", "B", "C", "D", "E", "F", "G", "H", "I", "J", "K", "L", "M",
           "N", "O", "P", "Q", "R", "S", "T", "U", "V", "W", "X", "Y", "Z">>
\* whitespace and punctuation in the order the default collation gives them
Punctuation == <<"\t", " ", ":", ".", "[", "]", "|">>

PosIn(seq, c) == CHOOSE i \in 1..Len(seq) : seq[i] = c
IsIn(seq, c) == \E i \in 1..Len(seq) : seq[i] = c

\* primary weight of a character under the default collation of
\* localeCompare: punctuation, then digits, then letters without regard to case
PrimaryWeight(c) ==
  IF IsIn(Punctuation, c) THEN PosIn(Punctuation, c)
  ELSE IF IsDigit(c) THEN 10 + DigitVal(c)
  ELSE IF IsIn(Lower, c) THEN 20 + PosIn(Lower, c)
  ELSE 20 + PosIn(Upper, c)

\* case weight: a lower-case letter before its upper-case letter
CaseWeight(c) == IF IsIn(Upper, c) THEN 1 ELSE 0

\* lexicographic comparison of two sequences of numbers: -1, 0 or 1
RECURSIVE CompareWeights(_, _)
CompareWeights(x, y) ==
  IF x = <<>> /\ y = <<>> THEN 0
  ELSE IF x = <<>> THEN -1
  ELSE IF y = <<>> THEN 1
  ELSE IF Head(x) < Head(y) THEN -1
  ELSE IF Head(x) > Head(y) THEN 1
  ELSE CompareWeights(Tail(x), Tail(y))

\* a.localeCompare(b): the primary weights decide, the case weights break a tie
localeCompare(a, b) ==
  LET prim == CompareWeights([i \in 1..Len(a) |-> PrimaryWeight(a[i])],
                             [i \in 1..Len(b) |-> PrimaryWeight(b[i])])
  IN IF prim # 0 THEN prim
     ELSE CompareWeights([i \in 1..Len(a) |-> CaseWeight(a[i])],
                         [i \in 1..Len(b) |-> CaseWeight(b[i])])

\* a plausible slip: the name tie-break of the item comparator is left out
compareItemsOrderOnly(a, b) == a.sortOrder - b.sortOrder

\* the comparator of items.sort
compareItems(a, b) ==
  IF a.sortOrder # b.sortOrder THEN a.sortOrder - b.sortOrder
  ELSE localeCompare(a.displayName, b.displayName)

\* a plausible slip: the 'General' pin of the group comparator is left out
compareGroupsNoPin(a, b) ==
  IF a.sortOrder # b.sortOrder THEN a.sortOrder - b.sortOrder
  ELSE localeCompare(a.name, b.name)

\* the comparator of groups.sort
compareGroups(a, b) ==
  IF a.name = General THEN -1
  ELSE IF b.name = General THEN 1
  ELSE IF a.sortOrder # b.sortOrder THEN a.sortOrder - b.sortOrder
  ELSE localeCompare(a.name, b.name)

\* a plausible slip: a sort that is not stable, an element going before the
\* elements it compares equal to
InsertItemFirst(x, sorted) ==
  LET before == {i \in 1..Len(sorted) : compareItems(sorted[i], x) < 0}
      n == IF before = {} THEN 0
           ELSE CHOOSE i \in before : \A j \in before : j <= i
  IN SubSeq(sorted, 1, n) \o <<x>> \o SubSeq(sorted, n + 1, Len(sorted))

\* Array.prototype.sort is stable: x goes behind the last element that does
\* not compare after it
InsertItem(x, sorted) ==
  LET before == {i \in 1..Len(sorted) : compareItems(sorted[i], x) <= 0}
      n == IF before = {} THEN 0
           ELSE CHOOSE i \in before : \A j \in before : j <= i
  IN SubSeq(sorted, 1, n) \o <<x>> \o SubSeq(sorted, n + 1, Len(sorted))

\* items.sort(compareItems)
RECURSIVE sortItems(_)
sortItems(items) ==
  IF items = <<>> THEN <<>>
  ELSE InsertItem(items[Len(items)],
                  sortItems(SubSeq(items, 1, Len(items) - 1)))

InsertGroup(x, sorted) ==
  LET before == {i \in 1..Len(sorted) : compareGroups(sorted[i], x) <= 0}
      n == IF before = {} THEN 0
           ELSE CHOOSE i \in before : \A j \in before : j <= i
  IN SubSeq(sorted, 1, n) \o <<x>> \o SubSeq(sorted, n + 1, Len(sorted))

\* groups.sort(compareGroups)
RECURSIVE sortGroups(_)
sortGroups(groups) ==
  IF groups = <<>> THEN <<>>
  ELSE InsertGroup(groups[Len(groups)],
                   sortGroups(SubSeq(groups, 1, Len(groups) - 1)))

\* a plausible slip: the 'General' default of the group key is left out
groupKeyNoDefault(contentType) == contentType.group

\* contentType.group || 'General'
groupKey(contentType) ==
  IF contentType.group = <<>> THEN General ELSE contentType.group

\* the keys of groupMap in the order they were created
RECURSIVE KeysInOrder(_)
KeysInOrder(contentTypes) ==
  IF contentTypes = <<>> THEN <<>>
  ELSE LET front == KeysInOrder(SubSeq(contentTypes, 1, Len(contentTypes) - 1))
           k == groupKey(contentTypes[Len(contentTypes)])
       IN IF \E i \in 1..Len(front) : front[i] = k THEN front
          ELSE Append(front, k)

\* a property key that is an array index: a canonical decimal numeral below
\* 2^32 - 1 (every numeral of at most nine digits is)
IsIndexKey(k) ==
  /\ Len(k) > 0
  /\ \A i \in 1..Len(k) : IsDigit(k[i])
  /\ (Len(k) = 1 \/ k[1] # "0")
  /\ Len(k) <= 9

\* the keys as Object.entries lists them: array-index keys first, in
\* ascending numeric order, then the other keys in creation order
RECURSIVE IndexKeysAscending(_)
IndexKeysAscending(ks) ==
  IF ks = {} THEN <<>>
  ELSE LET k == CHOOSE k \in ks : \A o \in ks : parseInt(k) <= parseInt(o)
       IN <<k>> \o IndexKeysAscending(ks \ {k})

ObjectKeys(contentTypes) ==
  LET created == KeysInOrder(contentTypes)
  IN IndexKeysAscending({created[i] : i \in {j \in 1..Len(created) :
                                                IsIndexKey(created[j])}})
     \o SelectSeq(created, LAMBDA k : ~IsIndexKey(k))

\* a plausible slip: the largest sortOrder of the items is taken
MaxSortOrder(items) ==
  CHOOSE m \in {items[i].sortOrder : i \in 1..Len(items)} :
    \A i \in 1..Len(items) : m >= items[i].sortOrder

\* Math.min(...items.map(item => item.sortOrder)) of a non-empty array
MinSortOrder(items) ==
  CHOOSE m \in {items[i].sortOrder : i \in 1..Len(items)} :
    \A i \in 1..Len(items) : m <= items[i].sortOrder

\* groupMap is an object literal: under these keys it answers with what it
\* inherits from Object.prototype before any group was created
InheritedKeys ==
  {
    <<"c", "o", "n", "s", "t", "r", "u", "c", "t", "o", "r">>,
    <<"t", "o", "S", "t", "r", "i", "n", "g">>,
    <<"v", "a", "l", "u", "e", "O", "f">>,
    <<"h", "a", "s", "O", "w", "n", "P", "r", "o", "p", "e", "r", "t", "y">>,
    <<"i", "s", "P", "r", "o", "t", "o", "t", "y", "p", "e", "O", "f">>,
    <<"p", "r", "o", "p", "e", "r", "t", "y", "I", "s", "E", "n", "u", "m", "e", "r", "a", "b", "l", "e">>,
    <<"t", "o", "L", "o", "c", "a", "l", "e", "S", "t", "r", "i", "n", "g">>,
    <<"_", "_", "p", "r", "o", "t", "o", "_", "_">> }

\* The value is [threw, groups]. For a content type whose group key is an
\* inherited key !groupMap[groupName] is false and groupMap[groupName].push is
\* not a function: the forEach ends in a TypeError.
organizeByGroups(contentTypes) ==
  LET keys == ObjectKeys(contentTypes)
      itemsOf(k) ==
        sortItems(SelectSeq(contentTypes, LAMBDA ct : groupKey(ct) = k))
  IN IF \E i \in 1..Len(contentTypes) :
          groupKey(contentTypes[i]) \in InheritedKeys
     THEN [threw |-> TRUE, groups |-> <<>>]
     ELSE [threw |-> FALSE,
           groups |-> sortGroups([i \in 1..Len(keys) |->
                        [name |-> keys[i],
                         items |-> itemsOf(keys[i]),
                         sortOrder |-> MinSortOrder(itemsOf(keys[i]))]])]

(***************************************************************************)
(* Permission filter                                                       *)
(***************************************************************************)
ExplorerRead == "plugin::content-manager.explorer.read"

\* the actions a permission of the listings carries
Actions ==
  {ExplorerRead, "plugin::content-manager.explorer.create",
   "plugin::users-permissions.roles.read",
   "plugin::users-permissions.roles.find"}

\* p.action?.includes(word)
includes(action, word) ==
  \/ word = "read" /\ action \in {ExplorerRead,
                                  "plugin::users-permissions.roles.read"}
  \/ word = "find" /\ action = "plugin::users-permissions.roles.find"

\* a plausible slip: the looser match for plugin content types is left out
allowedExplorerOnly(permissions, contentTypes) ==
  IF Len(permissions) > 0
  THEN SelectSeq(contentTypes, LAMBDA ct :
         \E i \in 1..Len(permissions) :
           /\ permissions[i].action = ExplorerRead
           /\ permissions[i].subject = ct.uid)
  ELSE contentTypes

\* a plausible slip: without permissions nothing is shown
allowedFailClosed(permissions, contentTypes) ==
  SelectSeq(contentTypes, LAMBDA ct :
    \/ \E i \in 1..Len(permissions) :
         permissions[i].action = ExplorerRead /\ permissions[i].subject = ct.uid
    \/ /\ startsWith(ct.uid, NsPlugin)
       /\ \E i \in 1..Len(permissions) :
            /\ permissions[i].subject = ct.uid
            /\ \/ includes(permissions[i].action, "read")
               \/ includes(permissions[i].action, "find")
               \/ permissions[i].action = ExplorerRead)

\* allowedContentTypes of fetchContentTypes
allowed(permissions, contentTypes) ==
  IF Len(permissions) > 0
  THEN SelectSeq(contentTypes, LAMBDA ct :
         \/ \E i \in 1..Len(permissions) :
              /\ permissions[i].action = ExplorerRead
              /\ permissions[i].subject = ct.uid
         \/ /\ startsWith(ct.uid, NsPlugin)
            /\ \E i \in 1..Len(permissions) :
                 /\ permissions[i].subject = ct.uid
                 /\ \/ includes(permissions[i].action, "read")
                    \/ includes(permissions[i].action, "find")
                    \/ permissions[i].action = ExplorerRead)
  ELSE contentTypes

\* the answer of GET /admin/users/me/permissions: [ok, list]; the request
\* failing is ok = FALSE. The value is what fetchAdminPermissions returns.
fetchAdminPermissions(answer) == IF answer.ok THEN answer.list ELSE <<>>

(***************************************************************************)
(* Presentation: getPluginConfig and the three templates                   *)
(***************************************************************************)
defaultTemplate == "accordion"

\* a value that is not there: undefined, null, or the empty string
NoValue == "none"

\* the template getPluginConfig returns: config.template || (env || default);
\* a failed /config request is an answer without fields
getPluginConfig(config) ==
  IF config.served # NoValue THEN config.served
  ELSE IF config.env # NoValue THEN config.env
  ELSE defaultTemplate

\* the ternary of NavigationApp's return: which navigation component renders
Renderer(tpl) ==
  IF tpl = "accordion" THEN "accordion"
  ELSE IF tpl = "v5" THEN "v5"
  ELSE "official"

\* a plausible slip: the link is active when the path is its href
isActiveByHref(pathname, contentType) == pathname = contentType.href

\* window.location.pathname.includes(contentType.uid)
isActive(pathname, contentType) == IndexOf(pathname, contentType.uid) # 0

\* a plausible slip: the items are emitted as the group lists them
allTypesAsListed(group) == group.items

\* [...collectionTypes, ...singleTypes] of the three group sections
allTypes(group) ==
  SelectSeq(group.items, LAMBDA item : item.kind = "collectionType")
    \o SelectSeq(group.items, LAMBDA item : item.kind = "singleType")

\* a plausible slip: the accordion opens the last group with an active item
AccordionValueLast(groups, pathname) ==
  LET hits == {g \in 1..Len(groups) :
                 \E i \in 1..Len(groups[g].items) :
                   isActive(pathname, groups[g].items[i])}
  IN IF hits = {} THEN 0 ELSE CHOOSE g \in hits : \A h \in hits : h <= g

\* defaultValue of Accordion.Root: the first group that holds an active item
\* (its position; 0: undefined)
AccordionValue(groups, pathname) ==
  LET hits == {g \in 1..Len(groups) :
                 \E i \in 1..Len(groups[g].items) :
                   isActive(pathname, groups[g].items[i])}
  IN IF hits = {} THEN 0 ELSE CHOOSE g \in hits : \A h \in hits : g <= h

\* whether section g is open once the tree has mounted: the accordion opens
\* the item named by defaultValue; a v5 section starts with expanded = false
\* and its mount effect sets it when one of its items is active; the sections
\* of the official template are left to the design system, which opens them
ExpandedOnMount(renderer, groups, pathname, g) ==
  CASE renderer = "accordion" -> AccordionValue(groups, pathname) = g
    [] renderer = "v5" ->
         \E i \in 1..Len(allTypes(groups[g])) :
           isActive(pathname, allTypes(groups[g])[i])
    [] OTHER -> TRUE

\* one group section: the navigation component it belongs to, its links in
\* emitted order; asMain: the v5 section of a single item is that item's link
\* and has no button
Section(renderer, group, pathname, expanded) ==
  [variant |-> renderer,
   name |-> group.name,
   links |-> [i \in 1..Len(allTypes(group)) |->
                [uid |-> allTypes(group)[i].uid,
                 active |-> isActive(pathname, allTypes(group)[i])]],
   expanded |-> expanded,
   asMain |-> renderer = "v5" /\ Len(allTypes(group)) = 1]

\* what NavigationApp returns while the tree is not there yet (or again)
MountTree(tpl, groups, pathname, searching) ==
  IF Len(groups) = 0 \/ searching THEN <<>>
  ELSE [g \in 1..Len(groups) |->
          Section(Renderer(tpl), groups[g], pathname,
                  ExpandedOnMount(Renderer(tpl), groups, pathname, g))]

\* a render of the mounted tree: the links are computed anew, the open state
\* of every section is kept
RenderTree(tree, tpl, groups, pathname) ==
  [g \in 1..Len(tree) |->
     Section(Renderer(tpl), groups[g], pathname, tree[g].expanded)]

(***************************************************************************)
(* Host Synchronization Controller: the page                               *)
(***************************************************************************)
MaxApps == 2
MaxHostLi == 1

Empty == <<>>
Values == {Empty, <<"q">>}

HomePath == <<"admin">>
CmPath == <<"admin", "content-manager", "collection-types", "api::a">>
Paths == {HomePath, CmPath}

\* window.location.pathname.includes('/admin/content-manager')
InContentManager(p) ==
  \E i \in 1..(Len(p) - 1) : p[i] = "admin" /\ p[i + 1] = "content-manager"

Templates == {"accordion", "v5"}

\* whether the markup a template renders holds li elements: V5Navigation
\* renders its groups and links as li, AccordionNavigation renders Accordion
\* items, links and buttons
TemplateHasLi(t) == t = "v5"

\* An ol of the host: types says that its text holds 'Collection Types' or
\* 'Single Types', top that it lies in no other ol.
Ol(types, top) == [types |-> types, top |-> top]

\* the ol structures the host renders inside its nav
OlShapes ==
  { <<>>,
    <<Ol(TRUE, TRUE)>>,
    <<Ol(FALSE, TRUE)>>,
    <<Ol(TRUE, TRUE), Ol(TRUE, FALSE)>>,
    <<Ol(FALSE, TRUE), Ol(TRUE, TRUE)>> }

\* the usual structure: one top-level ol under the category labels
PlainShapes == { <<Ol(TRUE, TRUE)>> }

\* ol k is ol j or the ol that j is nested in
Encloses(os, k, j) ==
  \/ k = j
  \/ k < j /\ ~os[j].top /\ os[k].top /\ \A m \in (k + 1)..(j - 1) : ~os[m].top

NoNode == 0

\* the state the handlers read and write, as one record
Cur ==
  [navigationInitialized |-> navigationInitialized,
   checkInterval |-> checkInterval,
   headerObservers |-> headerObservers,
   reinitExposed |-> reinitExposed,
   cache |-> cache,
   path |-> path,
   nav |-> nav,
   ols |-> ols,
   hostLi |-> hostLi,
   headersHidden |-> headersHidden,
   input |-> input,
   containers |-> containers,
   apps |-> apps,
   dirty |-> FALSE]   \* nodes were added to the body since the observers last ran

Commit(w) ==
  /\ navigationInitialized' = w.navigationInitialized
  /\ checkInterval' = w.checkInterval
  /\ headerObservers' = w.headerObservers
  /\ reinitExposed' = w.reinitExposed
  /\ cache' = w.cache
  /\ path' = w.path
  /\ nav' = w.nav
  /\ ols' = w.ols
  /\ hostLi' = w.hostLi
  /\ headersHidden' = w.headersHidden
  /\ input' = w.input
  /\ containers' = w.containers
  /\ apps' = w.apps

\* a plausible slip: the check for an injected container is left out
getElementByIdNever(cs) == NoNode

\* document.getElementById('stack-nav-container'): the id of an attached
\* container, NoNode when there is none
getElementById(cs) ==
  IF cs = {} THEN NoNode
  ELSE CHOOSE i \in {c.id : c \in cs} : \A j \in {c.id : c \in cs} : i <= j

\* document.querySelector(navQuery) || document.querySelector('nav'); the
\* third lookup (a nav whose text holds a category label) runs only when the
\* page holds no nav at all, and finds nothing then
NavFound(w) == w.nav

\* the spans 'Collection Types' / 'Single Types' with their count badges
HasHeaders(w) == NavFound(w) /\ \E k \in 1..Len(w.ols) : w.ols[k].types

\* hideCollectionHeaders(hide) of the NavigationApp effect
hideCollectionHeaders(w, hide) ==
  IF HasHeaders(w) THEN [w EXCEPT !.headersHidden = hide] ELSE w

\* hideCollectionTypeHeaders() of the module
hideCollectionTypeHeaders(w) ==
  IF HasHeaders(w) THEN [w EXCEPT !.headersHidden = TRUE] ELSE w

(***************************************************************************)
(* NavigationApp                                                           *)
(***************************************************************************)
\* what NavigationApp returns has DOM nodes: groups are there and the app is
\* not in search mode
WantsTree(a) == a.mounted /\ a.load = "some" /\ ~a.isSearching

\* toggleIsSearching(isSearching) in the effect closure of app i
toggleIsSearching(w, i, flag) ==
  IF ~NavFound(w) THEN w
  ELSE LET w1 == [w EXCEPT
                    !.hostLi = [k \in DOMAIN w.hostLi |->
                                  IF flag THEN "initial" ELSE "none"],
                    !.apps[i].isSearching =
                       IF w.apps[i].mounted /\ w.apps[i].node # NoNode
                       THEN flag ELSE @]
           w2 == hideCollectionHeaders(w1, ~flag)
           custom == getElementById(w2.containers)
       IN [w2 EXCEPT !.apps =
             [j \in DOMAIN w2.apps |->
                IF /\ custom # NoNode
                   /\ w2.apps[j].node = custom
                   /\ w2.apps[j].tree \in {"shown", "hidden"}
                   /\ TemplateHasLi(template)
                THEN [w2.apps[j] EXCEPT !.tree = IF flag THEN "hidden" ELSE "shown"]
                ELSE w2.apps[j]]]

\* checkSearchInput() in the effect closure of app i: the state after it and
\* whether it returned the input
checkSearchInput(w, i) ==
  IF w.path = w.apps[i].mountPath
  THEN IF w.input.present
       THEN [w |-> toggleIsSearching(w, i, w.input.value # Empty), found |-> TRUE]
       ELSE [w |-> toggleIsSearching(w, i, FALSE), found |-> FALSE]
  ELSE [w |-> w, found |-> FALSE]

\* addEventListener('input', ...) and inputObserver.observe(searchInput, ...)
BindInput(w, i) == [w EXCEPT !.apps[i].bound = "current"]

\* the callback of the app's body observer, for records with added nodes
navObserverCallback(w, i) ==
  LET r == checkSearchInput(w, i)
  IN IF r.found /\ w.apps[i].bound = "none" THEN BindInput(r.w, i) ELSE r.w

\* the body observers of all mounted apps, in the order they were created
RECURSIVE ObserveFrom(_, _)
ObserveFrom(w, i) ==
  IF i > Len(w.apps) THEN w
  ELSE ObserveFrom(IF w.apps[i].mounted THEN navObserverCallback(w, i) ELSE w,
                   i + 1)

\* the container node has element children
HasChildren(w, n) ==
  \E i \in 1..Len(w.apps) :
    w.apps[i].node = n /\ w.apps[i].tree \in {"shown", "hidden"}

\* React commits what the apps return: a tree that appears adds fresh nodes
\* to its container, a tree that goes takes its nodes away
Flush(w) ==
  LET wants(a) == WantsTree(a) /\ a.node # NoNode
  IN [w EXCEPT
        !.apps = [i \in DOMAIN w.apps |->
                    [w.apps[i] EXCEPT !.tree =
                       IF ~wants(w.apps[i]) THEN "none"
                       ELSE IF @ = "none" THEN "shown" ELSE @]],
        !.dirty = w.dirty \/ \E i \in 1..Len(w.apps) :
                                wants(w.apps[i]) /\ w.apps[i].tree = "none"]

\* after a handler has run: React commits, the body observers are told of added
\* nodes, and what they change is committed in turn
RECURSIVE Settle(_, _)
Settle(w, rounds) ==
  LET w1 == Flush(w)
  IN IF ~w1.dirty \/ rounds = 0 THEN [w1 EXCEPT !.dirty = FALSE]
     ELSE Settle([ObserveFrom(w1, 1) EXCEPT !.dirty = FALSE], rounds - 1)

\* root.render(<NavigationApp />) into container node: the first render and
\* the effects of the mount
RenderApp(w, node) ==
  LET i == Len(w.apps) + 1
      w1 == [w EXCEPT !.apps = Append(@,
                [node |-> node, mountPath |-> w.path,
                 isSearching |-> FALSE, load |-> "config", bound |-> "none",
                 mounted |-> TRUE, tree |-> "none"])]
      w2 == hideCollectionHeaders(w1, TRUE)
      r == checkSearchInput(w2, i)
  IN IF r.found THEN BindInput(r.w, i) ELSE r.w

(***************************************************************************)
(* Mounting                                                                *)
(***************************************************************************)
processNavigation(w, k) ==
  LET existingNav == getElementById(w.containers)
  IN IF existingNav # NoNode
     THEN IF ~HasChildren(w, existingNav)
          THEN RenderApp(w, existingNav)
          ELSE w
     ELSE LET id == Cardinality(w.containers) + 1
          IN RenderApp([w EXCEPT
                          !.containers = @ \cup {[id |-> id, ol |-> k]},
                          !.dirty = TRUE], id)

\* the ol that setupNavigationReplacement hands to processNavigation: the
\* first that holds the container or is a top-level ol with a category
\* label, else the first ol; 0 when the nav holds no ol
MainOl(w) ==
  LET main == {k \in 1..Len(w.ols) :
                 \/ \E c \in w.containers : Encloses(w.ols, k, c.ol)
                 \/ w.ols[k].types /\ w.ols[k].top}
  IN IF main # {} THEN CHOOSE k \in main : \A j \in main : k <= j
     ELSE IF Len(w.ols) > 0 THEN 1 ELSE 0

\* window.navObserver is never assigned, so the disconnect at the top of the
\* function does nothing
setupNavigationReplacement(w) ==
  IF NavFound(w) /\ MainOl(w) # 0 THEN processNavigation(w, MainOl(w)) ELSE w

\* setupHeaderCleaning(): one more observer on the body, never disconnected
setupHeaderCleaning(w) == [w EXCEPT !.headerObservers = @ + 1]

buildNavigation(w) ==
  [setupHeaderCleaning(setupNavigationReplacement(w)) EXCEPT
     !.reinitExposed = TRUE]

\* a plausible slip: the interval never remounts
TickRemountsNever(hasContainer, customNav) == FALSE

\* the condition under which the interval callback mounts again
TickRemounts(hasContainer, customNav) == hasContainer /\ customNav = NoNode

\* the callback of window.checkNavigationInterval
intervalCallback(w) ==
  IF InContentManager(w.path)
  THEN LET hasContainer == NavFound(w) /\ Len(w.ols) > 0
           customNav == getElementById(w.containers)
           w1 == IF TickRemounts(hasContainer, customNav)
                 THEN setupNavigationReplacement(w) ELSE w
       IN hideCollectionTypeHeaders(w1)
  ELSE w

setupContinuousNavigationCheck(w) ==
  IF w.navigationInitialized THEN w
  ELSE LET w1 == setupHeaderCleaning(
                   setupNavigationReplacement(
                     [w EXCEPT !.navigationInitialized = TRUE]))
       IN IF w1.checkInterval = 0 THEN [w1 EXCEPT !.checkInterval = 1] ELSE w1

\* a plausible slip: the register path injects without looking at the probe
ProbeEnabledAlways(r) == TRUE

\* isPluginEnabled(): response.ok, false on a network error
ProbeEnabled(r) == r = "ok"

(***************************************************************************)
(* Actions                                                                 *)
(***************************************************************************)
\* a handler ran to its end: its state is committed, within the bound on the
\* number of app instances
Ends(w) ==
  /\ Len(w.apps) <= MaxApps
  /\ Commit(Settle(w, 3))
  /\ UNCHANGED <<normVars, viewVars, template>>

\* index.ts register: isPluginEnabled().then(...)
RegisterThen ==
  /\ regProbe = "pending"
  /\ \E r \in {"ok", "notok", "error"} :
       /\ regProbe' = r
       /\ Ends(IF ProbeEnabled(r) THEN buildNavigation(Cur) ELSE Cur)
  /\ UNCHANGED modProbe

\* SubNavInjector module load: isPluginEnabled().then(...)
ModuleLoadThen ==
  /\ modProbe = "pending"
  /\ \E r \in {"ok", "notok", "error"} :
       /\ modProbe' = r
       /\ Ends(IF ProbeEnabled(r) THEN setupContinuousNavigationCheck(Cur)
               ELSE Cur)
  /\ UNCHANGED regProbe

\* window.reinitializeNavigation()
Reinitialize ==
  /\ reinitExposed
  /\ Ends(setupNavigationReplacement(Cur))
  /\ UNCHANGED <<regProbe, modProbe>>

\* one tick of the 100ms interval
IntervalTick ==
  /\ checkInterval > 0
  /\ Ends(intervalCallback(Cur))
  /\ UNCHANGED <<regProbe, modProbe>>

\* initialize() goes on after await getPluginConfig(): groups from the cache,
\* or the listing is fetched
ConfigResolve(i) ==
  /\ apps[i].load = "config"
  /\ Ends([Cur EXCEPT !.apps[i].load = IF cache THEN "some" ELSE "fetching"])
  /\ UNCHANGED <<regProbe, modProbe>>

\* fetchContentTypes ends: with groups, with no permitted content type, or in
\* its catch
ListingResolve(i) ==
  /\ apps[i].load = "fetching"
  /\ \E out \in {"some", "empty", "failed"} :
       Ends([Cur EXCEPT !.apps[i].load = out,
                        !.cache = IF out = "failed" THEN @ ELSE out = "some"])
  /\ UNCHANGED <<regProbe, modProbe>>

\* the 'input' event on the search input: the listeners of every app that
\* bound one to this element
InputEvent ==
  /\ input.present
  /\ \E v \in Values \ {input.value} :
       LET RECURSIVE Listeners(_, _)
           Listeners(w, i) ==
             IF i > Len(w.apps) THEN w
             ELSE Listeners(IF w.apps[i].bound = "current"
                            THEN toggleIsSearching(w, i, v # Empty) ELSE w,
                            i + 1)
       IN Ends(Listeners([Cur EXCEPT !.input.value = v], 1))
  /\ UNCHANGED <<regProbe, modProbe>>

\* the host sets the value attribute of the search input: the value
\* observers of every app that still has one connected to this element
ValueAttribute ==
  /\ input.present
  /\ \E v \in Values \ {input.value} :
       LET RECURSIVE Observers(_, _)
           Observers(w, i) ==
             IF i > Len(w.apps) THEN w
             ELSE Observers(IF w.apps[i].bound = "current" /\ w.apps[i].mounted
                            THEN toggleIsSearching(w, i, v # Empty) ELSE w,
                            i + 1)
       IN Ends(Observers([Cur EXCEPT !.input.value = v], 1))
  /\ UNCHANGED <<regProbe, modProbe>>

\* the navigation view is torn down: React unmounts the roots and the
\* cleanups of the two effects of every NavigationApp run (the path poll and
\* the popstate listener go, inputObserver and navObserver disconnect; a
\* mounted app is one whose path poll and body observer are live); the
\* 'input' listeners are not removed
Teardown ==
  /\ \E i \in 1..Len(apps) : apps[i].mounted
  /\ Ends([Cur EXCEPT !.apps =
             [i \in DOMAIN @ |-> [@[i] EXCEPT !.mounted = FALSE,
                                              !.isSearching = FALSE]]])
  /\ UNCHANGED <<regProbe, modProbe>>

\* apps whose container left the document render into a detached node
Orphaned(as) ==
  [i \in DOMAIN as |-> [as[i] EXCEPT !.node = NoNode, !.isSearching = FALSE,
                                     !.tree = "none"]]

\* listeners bound to an input element that left the document
Unbound(as) ==
  [i \in DOMAIN as |->
     [as[i] EXCEPT !.bound = IF @ = "current" THEN "stale" ELSE @]]

\* the host renders its navigation anew: a fresh subtree, with a search
\* input that `${navQuery} input` finds or without one (a nav that navQuery
\* does not match is found by the 'nav' fallback, an input in it never)
HostRenderNav(shapes, inputs) ==
  \E shape \in shapes, n \in 0..MaxHostLi, withInput \in inputs :
    /\ shape = <<>> => n = 0
    /\ Ends([Cur EXCEPT !.nav = TRUE, !.ols = shape,
                        !.hostLi = [k \in 1..n |-> ""],
                        !.headersHidden = FALSE,
                        !.input = [present |-> withInput, value |-> Empty],
                        !.containers = {},
                        !.apps = Unbound(Orphaned(@)),
                        !.dirty = TRUE])
    /\ UNCHANGED <<regProbe, modProbe>>

\* the host takes its navigation off the page
HostRemoveNav ==
  /\ nav
  /\ Ends([Cur EXCEPT !.nav = FALSE, !.ols = <<>>, !.hostLi = <<>>,
                      !.headersHidden = FALSE,
                      !.input = [present |-> FALSE, value |-> Empty],
                      !.containers = {},
                      !.apps = Unbound(Orphaned(@))])
  /\ UNCHANGED <<regProbe, modProbe>>

\* a host re-render that drops the injected node and keeps the rest
HostRemoveContainer ==
  /\ containers # {}
  /\ Ends([Cur EXCEPT !.containers = {}, !.apps = Orphaned(@)])
  /\ UNCHANGED <<regProbe, modProbe>>

\* the host empties the injected node
HostWipeChildren ==
  /\ \E c \in containers : HasChildren(Cur, c.id)
  /\ Ends([Cur EXCEPT !.apps =
             [i \in DOMAIN @ |->
                [@[i] EXCEPT !.tree = IF @ \in {"shown", "hidden"}
                                      THEN "wiped" ELSE @]]])
  /\ UNCHANGED <<regProbe, modProbe>>

\* the host adds a navigation item
HostAddLi ==
  /\ Len(ols) > 0
  /\ Len(hostLi) < MaxHostLi
  /\ Ends([Cur EXCEPT !.hostLi = Append(@, ""), !.dirty = TRUE])
  /\ UNCHANGED <<regProbe, modProbe>>

\* the host drops a navigation item
HostRemoveLi ==
  /\ \E k \in 1..Len(hostLi) :
       Ends([Cur EXCEPT !.hostLi = SubSeq(@, 1, k - 1) \o SubSeq(@, k + 1, Len(@))])
  /\ UNCHANGED <<regProbe, modProbe>>

\* the host puts a (new) search input into its nav, or takes it away
HostInput ==
  /\ nav
  /\ \E p \in BOOLEAN :
       /\ p \/ input.present
       /\ Ends([Cur EXCEPT !.input = [present |-> p, value |-> Empty],
                           !.apps = Unbound(@),
                           !.dirty = p])
  /\ UNCHANGED <<regProbe, modProbe>>

\* the route changes (history.pushState by the host's router)
Navigate ==
  /\ \E p \in Paths \ {path} : Ends([Cur EXCEPT !.path = p])
  /\ UNCHANGED <<regProbe, modProbe>>

CtlInit ==
  /\ regProbe = "pending"
  /\ modProbe = "pending"
  /\ navigationInitialized = FALSE
  /\ checkInterval = 0
  /\ headerObservers = 0
  /\ reinitExposed = FALSE
  /\ cache = FALSE
  /\ template \in Templates
  /\ path \in Paths
  /\ nav = FALSE
  /\ ols = <<>>
  /\ hostLi = <<>>
  /\ headersHidden = FALSE
  /\ input = [present |-> FALSE, value |-> Empty]
  /\ containers = {}
  /\ apps = <<>>

ViewIdle ==
  /\ label = <<>>
  /\ cleanRuns = 0
  /\ vConfig = [env |-> NoValue, served |-> NoValue]
  /\ vTemplate = NoValue
  /\ vPath = <<>>
  /\ vSearching = FALSE
  /\ vTree = <<>>
  /\ vBefore = <<>>
  /\ inits = <<>>

NormIdle ==
  /\ nPhase = "idle"
  /\ nDelimiter = DefaultDelimiter
  /\ nRaw = [hasData |-> FALSE, data |-> <<>>]
  /\ nOut = [threw |-> FALSE, list |-> <<>>]
  /\ nPermissions = <<>>
  /\ nAnswer = [ok |-> FALSE, list |-> <<>>]
  /\ nAllowed = <<>>
  /\ nGroups = <<>>

Init == CtlInit /\ NormIdle /\ ViewIdle

\* the plugin's own steps: startup, the interval, the fetches of each app
PluginStep ==
  \/ RegisterThen
  \/ ModuleLoadThen
  \/ IntervalTick
  \/ \E i \in 1..Len(apps) : ConfigResolve(i)
  \/ \E i \in 1..Len(apps) : ListingResolve(i)

\* every step of the page; each specification below lets run the part of
\* it that a group of properties is about
Next ==
  \/ PluginStep
  \/ Reinitialize
  \/ InputEvent
  \/ ValueAttribute
  \/ Teardown
  \/ HostRenderNav(OlShapes, BOOLEAN)
  \/ HostRemoveNav
  \/ HostRemoveContainer
  \/ HostWipeChildren
  \/ HostAddLi
  \/ HostRemoveLi
  \/ HostInput
  \/ Navigate

Spec == Init /\ [][Next]_vars

\* Mounting and reconciliation: the two startup paths, interval ticks,
\* observer callbacks, explicit re-initialisation, and a host that re-renders
\* its navigation (without a search input), drops or empties the injected
\* node and changes the route.
MountNext ==
  \/ PluginStep
  \/ Reinitialize
  \/ HostRenderNav(OlShapes, {FALSE})
  \/ HostRemoveNav
  \/ HostRemoveContainer
  \/ HostWipeChildren
  \/ HostAddLi
  \/ HostRemoveLi
  \/ Navigate

SpecMount == Init /\ [][MountNext]_vars

\* a tick of the interval would change the page: ENABLED <<IntervalTick>>_vars
\* as a state predicate
TickChanges ==
  /\ checkInterval > 0
  /\ LET w == Settle(intervalCallback(Cur), 3)
     IN Len(w.apps) <= MaxApps /\ w # Cur

\* setInterval keeps firing its callback: WF_vars(IntervalTick), written out
TickFair == []<>(~TickChanges) \/ []<><<IntervalTick>>_vars

SpecRetry == Init /\ [][MountNext]_vars /\ TickFair

\* Search mode: the startup paths and interval ticks, and a host that renders
\* its navigation (one ol) with or without a search input, replaces the input, takes
\* typed and programmatic value changes, adds and drops items and changes
\* the route.
SearchNext ==
  \/ PluginStep
  \/ InputEvent
  \/ ValueAttribute
  \/ HostRenderNav(PlainShapes, BOOLEAN)
  \/ HostAddLi
  \/ HostRemoveLi
  \/ HostInput
  \/ Navigate

SpecSearch == Init /\ [][SearchNext]_vars

\* Teardown: the startup paths and interval ticks, a host that renders its
\* navigation (one ol) and takes typed input, and the teardown of the view.
TeardownNext ==
  \/ PluginStep
  \/ InputEvent
  \/ Teardown
  \/ HostRenderNav(PlainShapes, BOOLEAN)

SpecTeardown == Init /\ [][TeardownNext]_vars

(***************************************************************************)
(* Inputs of the normalizer runs                                           *)
(***************************************************************************)
MaxRecords == 2

Delimiters == {DefaultDelimiter, <<"|">>}

Uids ==
  { <<"a", "p", "i", ":", ":", "a">>,
    <<"a", "p", "i", ":", ":", "b">>,
    <<"p", "l", "u", "g", "i", "n", ":", ":", "u">>,
    <<"a", "d", "m", "i", "n", ":", ":", "x">>,
    <<"s", "t", "r", "a", "p", "i", ":", ":", "c">>,
    <<"a", "p", "i", ":", "a">>,
    <<"x", "a", "p", "i", ":", ":", "a">> }

\* what a display name may start with: nothing, well-formed hints with and
\* without whitespace after them, and near misses of the pattern
HintShapes ==
  { <<>>,
    <<"[", "1", "]">>,
    <<"[", "2", "]", " ">>,
    <<"[", "1", "0", "]", " ", "\t">>,
    <<"[", "0", "]", " ">>,
    <<"[", "]", " ">>,
    <<"[", "a", "]", " ">>,
    <<" ", "[", "1", "]", " ">>,
    <<"[", "1", " ">> }

BodyShapes ==
  { <<>>,
    <<"a">>,
    <<"B", " ", "|", " ", "a">>,
    <<"B", "|", "a">>,
    <<"B", " ", " ", "|", " ", "a">>,
    <<"|", " ", "a">> }

DisplayNames == {h \o b : h \in HintShapes, b \in BodyShapes} \cup {Missing}

ApiId == <<"n">>

\* raw records: every uid with one name and either kind, and every name with
\* one uid
RawRecords ==
  { [uid |-> u, apiID |-> ApiId,
     schema |-> [present |-> TRUE,
                 displayName |-> <<"B", " ", "|", " ", "a">>,
                 kind |-> k]] : u \in Uids, k \in {"collectionType", "singleType"} }
  \cup
  { [uid |-> <<"a", "p", "i", ":", ":", "a">>, apiID |-> ApiId,
     schema |-> [present |-> TRUE, displayName |-> d,
                 kind |-> "collectionType"]] : d \in DisplayNames }

RawListings == UNION {[1..n -> RawRecords] : n \in 0..MaxRecords}

NormInit ==
  /\ CtlInit
  /\ template = "accordion"
  /\ path = HomePath
  /\ nPhase = "input"
  /\ nDelimiter \in Delimiters
  /\ nRaw \in {[hasData |-> FALSE, data |-> <<>>]}
            \cup {[hasData |-> TRUE, data |-> l] : l \in RawListings}
  /\ nOut = [threw |-> FALSE, list |-> <<>>]
  /\ nPermissions = <<>>
  /\ nAnswer = [ok |-> FALSE, list |-> <<>>]
  /\ nAllowed = <<>>
  /\ nGroups = <<>>
  /\ ViewIdle

\* formatContentTypes(delimiter, { data: rawData }) as fetchContentTypes calls it
Normalize ==
  /\ nPhase = "input"
  /\ nOut' = formatContentTypes(nDelimiter, nRaw)
  /\ nPhase' = "done"
  /\ UNCHANGED <<nDelimiter, nRaw, nPermissions, nAnswer, nAllowed, nGroups>>
  /\ UNCHANGED <<ctlVars, viewVars>>

NormNext == Normalize

SpecNorm == NormInit /\ [][NormNext]_vars

(***************************************************************************)
(* Claims about the normalizer, checked under SpecNorm                     *)
(***************************************************************************)
\* positions of the raw records whose uid begins with api:: or plugin::,
\* read off the characters of the uid
InNamespace(uid) ==
  \/ Len(uid) >= 5 /\ \A k \in 1..5 : uid[k] = NsApi[k]
  \/ Len(uid) >= 8 /\ \A k \in 1..8 : uid[k] = NsPlugin[k]

RetainedIdx(raw) == {j \in 1..Len(raw) : InNamespace(raw[j].uid)}

\* the i-th smallest retained position
NthRetained(raw, i) ==
  CHOOSE j \in RetainedIdx(raw) :
    Cardinality({k \in RetainedIdx(raw) : k <= j}) = i

\* C9: for every raw listing, the normalized output holds one descriptor for
\* each record whose uid starts with api:: or plugin::, in listing order, and
\* no descriptor for any other record.
C9_NamespaceFilter ==
  nPhase = "done" =>
    /\ ~nOut.threw
    /\ Len(nOut.list) = Cardinality(RetainedIdx(nRaw.data))
    /\ \A i \in 1..Len(nOut.list) :
         nOut.list[i].uid = nRaw.data[NthRetained(nRaw.data, i)].uid

\* a listing in which one record is kept and another one dropped
C9_Witness ==
  /\ nPhase = "done"
  /\ Len(nRaw.data) = 2
  /\ ~InNamespace(nRaw.data[1].uid)
  /\ InNamespace(nRaw.data[2].uid)
  /\ Len(nOut.list) = 1

\* the display name formatContentTypes works on: schema.displayName || apiID
NameOf(ct) ==
  IF ct.schema.displayName = Missing \/ Len(ct.schema.displayName) = 0
  THEN ct.apiID ELSE ct.schema.displayName

\* d has the form "[" digits "]" ...
HasHintForm(d) ==
  \E n \in 1..(Len(d) - 2) :
    /\ d[1] = "["
    /\ \A k \in 2..(n + 1) : d[k] \in Digits
    /\ d[n + 2] = "]"

HintEnd(d) ==
  CHOOSE e \in 3..Len(d) :
    /\ d[e] = "]"
    /\ \A k \in 2..(e - 1) : d[k] \in Digits

\* the number the digits between the brackets denote, most significant first
RECURSIVE Horner(_, _)
Horner(ds, acc) ==
  IF ds = <<>> THEN acc ELSE Horner(Tail(ds), 10 * acc + DigitVal(Head(ds)))

HintValue(d) == Horner(SubSeq(d, 2, HintEnd(d) - 1), 0)

\* "rest": what follows the hint and the whitespace after it
RestOf(d) ==
  LET m == CHOOSE m \in HintEnd(d)..Len(d) :
             /\ \A k \in (HintEnd(d) + 1)..m : IsSpace(d[k])
             /\ (m = Len(d) \/ ~IsSpace(d[m + 1]))
  IN SubSeq(d, m + 1, Len(d))

\* C10 as stated: for every display name of the form "[N] rest" the descriptor
\* has sortOrder = N and displayName = rest; for every other display name
\* sortOrder = count + 1000, count the number of records in the raw listing.
C10_AsStated ==
  nPhase = "done" =>
    \A i \in 1..Len(nOut.list) :
      LET d == NameOf(nRaw.data[NthRetained(nRaw.data, i)])
          desc == nOut.list[i]
      IN IF HasHintForm(d)
         THEN desc.sortOrder = HintValue(d) /\ desc.displayName = RestOf(d)
         ELSE desc.sortOrder = Len(nRaw.data) + 1000

\* C10 amended: as stated, except that displayName is rest without its leading
\* "<group><delimiter>" when rest begins with the descriptor's group followed
\* by the delimiter (and rest itself otherwise).
C10_HintExtraction ==
  nPhase = "done" =>
    \A i \in 1..Len(nOut.list) :
      LET d == NameOf(nRaw.data[NthRetained(nRaw.data, i)])
          desc == nOut.list[i]
          pre == desc.group \o nDelimiter
      IN IF HasHintForm(d)
         THEN /\ desc.sortOrder = HintValue(d)
              /\ IF Len(pre) <= Len(RestOf(d))
                    /\ SubSeq(RestOf(d), 1, Len(pre)) = pre
                 THEN desc.displayName
                        = SubSeq(RestOf(d), Len(pre) + 1, Len(RestOf(d)))
                 ELSE desc.displayName = RestOf(d)
         ELSE desc.sortOrder = Len(nRaw.data) + 1000

\* a listing with a hinted name whose rest carries the group prefix, and a
\* name without a hint
C10_Witness ==
  /\ nPhase = "done"
  /\ Len(nOut.list) = 2
  /\ HasHintForm(NameOf(nRaw.data[1]))
  /\ nOut.list[1].sortOrder = 10
  /\ nOut.list[1].displayName # RestOf(NameOf(nRaw.data[1]))
  /\ ~HasHintForm(NameOf(nRaw.data[2]))
  /\ nOut.list[2].sortOrder = 1002

\* the hint-stripped display name of a raw record
StrippedName(ct) ==
  IF HasHintForm(NameOf(ct)) THEN RestOf(NameOf(ct)) ELSE NameOf(ct)

\* s occurs in d at position i
OccursAt(d, s, i) ==
  /\ i >= 1
  /\ i + Len(s) - 1 <= Len(d)
  /\ \A k \in 1..Len(s) : d[i + k - 1] = s[k]

Occurs(d, s) == \E i \in 1..Len(d) : OccursAt(d, s, i)

\* the text of d before the first occurrence of s
Before(d, s) ==
  LET i == CHOOSE i \in 1..Len(d) :
             OccursAt(d, s, i) /\ \A j \in 1..(i - 1) : ~OccursAt(d, s, j)
  IN SubSeq(d, 1, i - 1)

\* t without its leading and trailing whitespace
RECURSIVE Trimmed(_)
Trimmed(t) ==
  IF Len(t) = 0 THEN t
  ELSE IF IsSpace(t[1]) THEN Trimmed(Tail(t))
  ELSE IF IsSpace(t[Len(t)]) THEN Trimmed(SubSeq(t, 1, Len(t) - 1))
  ELSE t

\* displayName is d without the prefix group+s when d begins with it, else d
RemainderRule(desc, d, s) ==
  LET pre == desc.group \o s
  IN IF Len(pre) <= Len(d) /\ SubSeq(d, 1, Len(pre)) = pre
     THEN desc.displayName = SubSeq(d, Len(pre) + 1, Len(d))
     ELSE desc.displayName = d

\* C12 as stated: for every hint-stripped display name d and delimiter s, group
\* is the trimmed text of d before the first occurrence of s; displayName is d
\* without the prefix group+s when d begins with that prefix and d otherwise;
\* and when s does not occur in d, group equals the entire d and displayName
\* equals d.
C12_AsStated ==
  nPhase = "done" =>
    \A i \in 1..Len(nOut.list) :
      LET d == StrippedName(nRaw.data[NthRetained(nRaw.data, i)])
          desc == nOut.list[i]
      IN IF Occurs(d, nDelimiter)
         THEN /\ desc.group = Trimmed(Before(d, nDelimiter))
              /\ RemainderRule(desc, d, nDelimiter)
         ELSE desc.group = d /\ desc.displayName = d

\* C12 amended: as stated, except that when s does not occur in d the group is
\* the whole of d trimmed of its leading and trailing whitespace.
C12_GroupDerivation ==
  nPhase = "done" =>
    \A i \in 1..Len(nOut.list) :
      LET d == StrippedName(nRaw.data[NthRetained(nRaw.data, i)])
          desc == nOut.list[i]
      IN IF Occurs(d, nDelimiter)
         THEN /\ desc.group = Trimmed(Before(d, nDelimiter))
              /\ RemainderRule(desc, d, nDelimiter)
         ELSE desc.group = Trimmed(d) /\ desc.displayName = d

\* a listing with a name whose first segment is padded, so that the group is
\* not a prefix of the name, and a name without the delimiter that carries
\* whitespace at its start
C12_Witness ==
  /\ nPhase = "done"
  /\ Len(nOut.list) = 2
  /\ Occurs(StrippedName(nRaw.data[1]), nDelimiter)
  /\ nOut.list[1].group # Before(StrippedName(nRaw.data[1]), nDelimiter)
  /\ nOut.list[1].displayName = StrippedName(nRaw.data[1])
  /\ ~Occurs(StrippedName(nRaw.data[2]), nDelimiter)
  /\ nOut.list[2].group # StrippedName(nRaw.data[2])

\* C13 as stated: every descriptor produced by normalization has a non-empty
\* group string, for every display name and delimiter.
C13_AsStated ==
  nPhase = "done" => \A i \in 1..Len(nOut.list) : Len(nOut.list[i].group) > 0

(***************************************************************************)
(* Normalizer runs on listings with malformed records                      *)
(***************************************************************************)
\* a raw record without schema (the fields under schema are not there to be
\* read; the record keeps them for the shape only)
NoSchema == [present |-> FALSE, displayName |-> Missing, kind |-> "collectionType"]

\* well-formed records, a record with schema but no display name, and records
\* without schema inside and outside the retained namespaces
MalformedRecords ==
  { [uid |-> <<"a", "p", "i", ":", ":", "a">>, apiID |-> ApiId,
     schema |-> [present |-> TRUE,
                 displayName |-> <<"B", " ", "|", " ", "a">>,
                 kind |-> "collectionType"]],
    [uid |-> <<"a", "p", "i", ":", ":", "b">>, apiID |-> ApiId,
     schema |-> [present |-> TRUE,
                 displayName |-> <<"[", "2", "]", " ", "a">>,
                 kind |-> "collectionType"]],
    [uid |-> <<"a", "p", "i", ":", ":", "b">>, apiID |-> ApiId,
     schema |-> [present |-> TRUE, displayName |-> Missing,
                 kind |-> "singleType"]],
    [uid |-> <<"a", "p", "i", ":", ":", "a">>, apiID |-> ApiId,
     schema |-> NoSchema],
    [uid |-> <<"p", "l", "u", "g", "i", "n", ":", ":", "u">>, apiID |-> ApiId,
     schema |-> NoSchema],
    [uid |-> <<"a", "d", "m", "i", "n", ":", ":", "x">>, apiID |-> ApiId,
     schema |-> NoSchema] }

MalformedListings == UNION {[1..n -> MalformedRecords] : n \in 0..MaxRecords}

MalformedInit ==
  /\ CtlInit
  /\ template = "accordion"
  /\ path = HomePath
  /\ nPhase = "input"
  /\ nDelimiter \in Delimiters
  /\ nRaw \in {[hasData |-> FALSE, data |-> <<>>]}
            \cup {[hasData |-> TRUE, data |-> l] : l \in MalformedListings}
  /\ nOut = [threw |-> FALSE, list |-> <<>>]
  /\ nPermissions = <<>>
  /\ nAnswer = [ok |-> FALSE, list |-> <<>>]
  /\ nAllowed = <<>>
  /\ nGroups = <<>>
  /\ ViewIdle

SpecMalformed == MalformedInit /\ [][NormNext]_vars

\* C26 as stated: a malformed record never aborts the batch: normalization
\* ends without an error, returns one descriptor for every retained record,
\* and the descriptor of a record without schema or without display name has
\* its identifier (apiID) as display name; an absent or empty listing yields
\* an empty sequence.
C26_AsStated ==
  nPhase = "done" =>
    /\ ~nOut.threw
    /\ Len(nOut.list) = Cardinality(RetainedIdx(nRaw.data))
    /\ \A i \in 1..Len(nOut.list) :
         LET ct == nRaw.data[NthRetained(nRaw.data, i)]
         IN ~ct.schema.present \/ ct.schema.displayName = Missing
              => nOut.list[i].displayName = ct.apiID
    /\ (~nRaw.hasData \/ nRaw.data = <<>>) => nOut.list = <<>>

(***************************************************************************)
(* Label cleaning runs                                                     *)
(***************************************************************************)
MaxCleanRuns == 2

\* the h1 texts: every display name of the normalizer runs, alone and behind
\* one more hint
LabelTexts ==
  (DisplayNames \ {Missing})
    \cup {<<"[", "7", "]", " ">> \o d : d \in DisplayNames \ {Missing}}
    \cup {<<"[", "7", "]">> \o d : d \in DisplayNames \ {Missing}}

CleanInit ==
  /\ CtlInit
  /\ template = "accordion"
  /\ path = HomePath
  /\ NormIdle
  /\ label \in LabelTexts
  /\ cleanRuns = 0
  /\ vConfig = [env |-> NoValue, served |-> NoValue]
  /\ vTemplate = NoValue
  /\ vPath = <<>>
  /\ vSearching = FALSE
  /\ vTree = <<>>
  /\ vBefore = <<>>
  /\ inits = <<>>

\* cleanHeaderElement, as setupHeaderCleaning runs it at once and its observer
\* on every mutation under the header: an empty text is left alone, any other
\* text is replaced by its cleaned form when that differs
cleanHeaderElement ==
  /\ cleanRuns < MaxCleanRuns
  /\ label' = (IF label = <<>> THEN label ELSE cleanHeaderText(label))
  /\ cleanRuns' = cleanRuns + 1
  /\ UNCHANGED <<vConfig, vTemplate, vPath, vSearching, vTree, vBefore>>
  /\ UNCHANGED inits
  /\ UNCHANGED <<normVars, ctlVars>>

CleanNext == cleanHeaderElement

SpecClean == CleanInit /\ [][CleanNext]_vars

\* C27 as stated: cleaning is idempotent: a text that was cleaned once is left
\* as it is by a further cleaning, clean(clean(t)) = clean(t).
C27_AsStated ==
  cleanRuns >= 1 => cleanHeaderText(label) = label

(***************************************************************************)
(* Grouping runs: initialize, its fetches answered                         *)
(***************************************************************************)
MaxListing == 3

\* uid and display name of the content types a listing is drawn from: names
\* that share a group, names that are equal, hints below and above the
\* sentinel, a name that is only a hint, a group called General, a group
\* whose name is a numeral, groups that differ in case only, a name that is
\* a property of Object.prototype
NamedTypes ==
  { <<<<"a", "p", "i", ":", ":", "a">>,
      <<"B", " ", "|", " ", "a">>>>,
    <<<<"a", "p", "i", ":", ":", "b">>,
      <<"B", " ", "|", " ", "a">>>>,
    <<<<"a", "p", "i", ":", ":", "c">>,
      <<"[", "2", "0", "0", "0", "]", " ", "B", " ", "|", " ", "c">>>>,
    <<<<"p", "l", "u", "g", "i", "n", ":", ":", "u">>,
      <<"[", "5", "]", " ", "C", " ", "|", " ", "a">>>>,
    <<<<"a", "p", "i", ":", ":", "d">>,
      <<"[", "1", "]">>>>,
    <<<<"a", "p", "i", ":", ":", "e">>,
      <<"G", "e", "n", "e", "r", "a", "l", " ", "|", " ", "x">>>>,
    <<<<"a", "p", "i", ":", ":", "f">>,
      <<"[", "3", "]", " ", "7", " ", "|", " ", "a">>>>,
    <<<<"a", "p", "i", ":", ":", "g">>,
      <<"b", " ", "|", " ", "A">>>>,
    <<<<"a", "p", "i", ":", ":", "h">>,
      <<"[", "5", "]", " ", "B", " ", "|", " ", "b">>>>,
    <<<<"a", "p", "i", ":", ":", "i">>,
      <<"B", " ", "|", " ", "A">>>>,
    <<<<"a", "p", "i", ":", ":", "j">>,
      <<"c", "o", "n", "s", "t", "r", "u", "c", "t", "o", "r">>>> }

GroupRecords ==
  { [uid |-> t[1], apiID |-> ApiId,
     schema |-> [present |-> TRUE, displayName |-> t[2],
                 kind |-> "collectionType"]] : t \in NamedTypes }

GroupListings == UNION {[1..n -> GroupRecords] : n \in 0..MaxListing}

\* the uids of NamedTypes in a fixed order
RECURSIVE SeqOf(_)
SeqOf(set) ==
  IF set = {} THEN <<>>
  ELSE LET x == CHOOSE x \in set : TRUE IN <<x>> \o SeqOf(set \ {x})

GroupUids == SeqOf({t[1] : t \in NamedTypes})

\* a permission list that grants explorer.read on every content type
GrantAll ==
  [i \in 1..Len(GroupUids) |-> [action |-> ExplorerRead, subject |-> GroupUids[i]]]

\* a permission list that grants some: plugin::u through a find action, api::a
\* through explorer.read; the other entries grant nothing
GrantSome ==
  << [action |-> "plugin::users-permissions.roles.find",
      subject |-> <<"p", "l", "u", "g", "i", "n", ":", ":", "u">>],
     [action |-> ExplorerRead, subject |-> <<"a", "p", "i", ":", ":", "a">>],
     [action |-> "plugin::content-manager.explorer.create",
      subject |-> <<"a", "p", "i", ":", ":", "b">>],
     [action |-> "plugin::users-permissions.roles.read",
      subject |-> <<"a", "p", "i", ":", ":", "c">>] >>

PermissionLists == {<<>>, GrantAll, GrantSome}

GroupInit ==
  /\ CtlInit
  /\ template = "accordion"
  /\ path = HomePath
  /\ nPhase = "input"
  /\ nDelimiter = DefaultDelimiter
  /\ nRaw \in {[hasData |-> FALSE, data |-> <<>>]}
            \cup {[hasData |-> TRUE, data |-> l] : l \in GroupListings}
  /\ nOut = [threw |-> FALSE, list |-> <<>>]
  /\ nPermissions \in PermissionLists
  /\ nAnswer \in {[ok |-> FALSE, list |-> <<>>]}
               \cup (IF nPermissions = <<>>
                     THEN {[ok |-> TRUE, list |-> l] : l \in {<<>>, GrantSome}}
                     ELSE {})
  /\ nAllowed = <<>>
  /\ nGroups = <<>>
  /\ ViewIdle

\* initialize without cached content types: fetchContentTypes, both requests
\* answered. Its try block ends at the first throw: of formatContentTypes
\* before anything is stored, of organizeByGroups after the cache was written.
InitializeFetch ==
  /\ nPhase \in {"input", "fetched"}
  /\ Len(nAllowed) = 0
  /\ LET out == formatContentTypes(nDelimiter, nRaw)
         fetches == Len(nPermissions) = 0
         permissions == IF fetches THEN fetchAdminPermissions(nAnswer)
                        ELSE nPermissions
         allowedContentTypes == allowed(permissions, out.list)
         organized == organizeByGroups(allowedContentTypes)
     IN /\ nOut' = out
        /\ IF out.threw
           THEN UNCHANGED <<nPermissions, nAllowed, nGroups>>
           ELSE /\ nPermissions' = IF fetches /\ nAnswer.ok THEN nAnswer.list
                                   ELSE nPermissions
                /\ nAllowed' = allowedContentTypes
                /\ nGroups' = IF organized.threw THEN nGroups
                              ELSE organized.groups
  /\ nPhase' = (IF nPhase = "input" THEN "fetched" ELSE "replayed")
  /\ UNCHANGED <<nDelimiter, nRaw, nAnswer>>
  /\ UNCHANGED <<ctlVars, viewVars>>

\* initialize with cached content types: the groups are built from the cache
InitializeReplay ==
  /\ nPhase = "fetched"
  /\ Len(nAllowed) > 0
  /\ nGroups' = IF organizeByGroups(nAllowed).threw THEN nGroups
                ELSE organizeByGroups(nAllowed).groups
  /\ nPhase' = "replayed"
  /\ UNCHANGED <<nDelimiter, nRaw, nOut, nPermissions, nAnswer, nAllowed>>
  /\ UNCHANGED <<ctlVars, viewVars>>

GroupNext == InitializeFetch \/ InitializeReplay

SpecGroup == GroupInit /\ [][GroupNext]_vars

(***************************************************************************)
(* Claims about grouping, checked under SpecGroup                          *)
(***************************************************************************)
\* the descriptor comes from a raw record whose display name carries a hint
\* (in a grouping run a uid has one display name)
Hinted(desc) ==
  \E k \in 1..Len(nRaw.data) :
    nRaw.data[k].uid = desc.uid /\ HasHintForm(NameOf(nRaw.data[k]))

\* C11 as stated: the sortOrder of every descriptor without a hint is strictly
\* greater than the sortOrder of every descriptor with a hint, and inside
\* every group no item without a hint stands before an item with a hint.
C11_AsStated ==
  nPhase # "input" =>
    /\ \A i, j \in 1..Len(nOut.list) :
         ~Hinted(nOut.list[i]) /\ Hinted(nOut.list[j])
           => nOut.list[i].sortOrder > nOut.list[j].sortOrder
    /\ \A g \in 1..Len(nGroups) :
         \A i, j \in 1..Len(nGroups[g].items) :
           ~Hinted(nGroups[g].items[i]) /\ Hinted(nGroups[g].items[j]) => j < i

\* how often x occurs in seq
Count(seq, x) == Cardinality({i \in 1..Len(seq) : seq[i] = x})

\* how often x occurs among the items of all the groups
RECURSIVE CountInGroups(_, _)
CountInGroups(groups, x) ==
  IF groups = <<>> THEN 0
  ELSE Count(Head(groups).items, x) + CountInGroups(Tail(groups), x)

\* C14 as stated: the groups partition the descriptors organizeByGroups was
\* given: every descriptor appears in the output as often as in the input,
\* every item stands in the group whose name is its group field ('General'
\* when the field is empty), no group is empty and no two groups share a name.
C14_AsStated ==
  nPhase # "input" =>
    /\ \A i \in 1..Len(nAllowed) :
         CountInGroups(nGroups, nAllowed[i]) = Count(nAllowed, nAllowed[i])
    /\ \A g \in 1..Len(nGroups) :
         /\ Len(nGroups[g].items) > 0
         /\ \A i \in 1..Len(nGroups[g].items) :
              LET it == nGroups[g].items[i]
              IN /\ Count(nAllowed, it) > 0
                 /\ nGroups[g].name = (IF Len(it.group) = 0 THEN General
                                       ELSE it.group)
    /\ \A g, h \in 1..Len(nGroups) :
         nGroups[g].name = nGroups[h].name => g = h

(***************************************************************************)
(* Claims about mounting, checked under SpecMount                          *)
(***************************************************************************)

\* C1: whatever the two startup paths, interval ticks, observer callbacks and
\* host re-renders do, the document holds at most one element with id
\* stack-nav-container.
C1_AtMostOneContainer == Cardinality(containers) <= 1

\* both startup paths ran, the host dropped the injected node, and it was
\* injected again
C1_Witness ==
  /\ regProbe = "ok"
  /\ modProbe = "ok"
  /\ Len(apps) = 2
  /\ apps[1].node = NoNode
  /\ \E c \in containers : apps[2].node = c.id

\* the NavigationApp instances rendered into container node n
AppsIn(n) == {i \in 1..Len(apps) : apps[i].node = n}

\* C2: at most one NavigationApp instance is ever rendered into the injected
\* container, whether or not the container has rendered children when a
\* mount call arrives.
C2_AsStated == \A c \in containers : Cardinality(AppsIn(c.id)) <= 1

\* the host filter is empty
FilterEmpty == input.value = Empty

\* nothing is shown because the listing failed or yielded no descriptor
NoItemsByFailure ==
  /\ apps # <<>>
  /\ \A i \in 1..Len(apps) : apps[i].load \in {"failed", "empty"}

\* C3: when the injected tree shows no items because of a failure and the
\* host filter is empty, no host-native li is hidden by the controller.
C3_AsStated ==
  (NoItemsByFailure /\ FilterEmpty)
    => \A k \in 1..Len(hostLi) : hostLi[k] # "none"

\* C5: while no probe has answered ok (a non-ok status, a network error, or
\* no answer yet) there is no injected container, no navigation-check
\* interval, no observer and no NavigationApp; a path whose own probe did not
\* answer ok has left nothing behind.
C5_ProbeGate ==
  /\ regProbe # "ok" => ~reinitExposed
  /\ modProbe # "ok" => checkInterval = 0 /\ ~navigationInitialized
  /\ (regProbe # "ok" /\ modProbe # "ok")
       => /\ containers = {}
          /\ headerObservers = 0
          /\ apps = <<>>
          /\ ~headersHidden
          /\ \A k \in 1..Len(hostLi) : hostLi[k] = ""

\* one probe got a non-ok status, the other a network error, and the host
\* navigation is on the page under the content manager
C5_Witness ==
  /\ {regProbe, modProbe} = {"notok", "error"}
  /\ nav
  /\ Len(ols) > 0
  /\ Len(hostLi) > 0
  /\ InContentManager(path)

\* the host emptied the injected node n
Wiped(n) ==
  /\ n # NoNode
  /\ \E i \in 1..Len(apps) : apps[i].node = n /\ apps[i].tree = "wiped"
  /\ ~HasChildren(Cur, n)

\* C7: when the injected container is in the document without rendered
\* children because the host wiped them, the periodic interval re-check
\* renders the navigation into that same node.
C7_AsStated ==
  (/\ checkInterval > 0
   /\ InContentManager(path)
   /\ Len(apps) < MaxApps
   /\ Wiped(getElementById(containers)))
    => LET w == Settle(intervalCallback(Cur), 3)
       IN /\ w.containers = containers
          /\ Len(w.apps) = Len(apps) + 1
          /\ w.apps[Len(w.apps)].node = getElementById(containers)

\* the ol the mount point selection names: the first top-level ol under the
\* category labels, else the first ol
MountPoint(os) ==
  LET top == {k \in 1..Len(os) : os[k].types /\ os[k].top}
  IN IF top # {} THEN CHOOSE k \in top : \A j \in top : k <= j ELSE 1

\* the page as C6 wants it to stay: the module-load probe answered ok, a nav
\* with an ol is there, the path is under the content manager
RetryEnv ==
  /\ modProbe = "ok"
  /\ nav
  /\ Len(ols) > 0
  /\ InContentManager(path)
  /\ Len(apps) < MaxApps

MountedAtMountPoint == \E c \in containers : c.ol = MountPoint(ols)

\* C6: with the interval firing, whenever the page holds a nav with an ol and
\* no injected container under the content manager, then, unless the page
\* stops being so, the container is eventually a child of the mount-point
\* ol; this holds again each time the host removes the container.
C6_DiscoveryRetried ==
  (RetryEnv /\ containers = {}) ~> (MountedAtMountPoint \/ ~RetryEnv)

\* only the interval can have done it: the register probe was refused, the
\* host dropped the first container, and a second one sits at the mount
\* point, which is not the first ol
C6_Witness ==
  /\ regProbe \in {"notok", "error"}
  /\ modProbe = "ok"
  /\ Len(apps) = 2
  /\ apps[1].node = NoNode
  /\ MountedAtMountPoint
  /\ MountPoint(ols) = 2

\* C32 as stated: whatever the order of the two startup paths, at most one
\* navigation-check interval is live and at most one label-cleaning observer
\* is connected.
C32_AsStated ==
  /\ checkInterval <= 1
  /\ headerObservers <= 1

(***************************************************************************)
(* Claims about search mode, checked under SpecSearch                      *)
(***************************************************************************)

\* a listener of the controller is bound to the input in the document
Handled == \E i \in 1..Len(apps) : apps[i].bound = "current"

\* C4: once the controller has handled a typed change of the search input: a
\* non-empty value leaves every host-native li shown and no injected tree
\* visible; an empty value leaves every host-native li hidden and the
\* injected tree of every app that has groups visible.
C4_AsStated ==
  [][(InputEvent /\ Handled)
       => IF input'.value # Empty
          THEN /\ \A k \in 1..Len(hostLi') : hostLi'[k] = "initial"
               /\ \A i \in 1..Len(apps') : apps'[i].tree # "shown"
          ELSE /\ \A k \in 1..Len(hostLi') : hostLi'[k] = "none"
               /\ \A i \in 1..Len(apps') :
                     (apps'[i].node # NoNode /\ apps'[i].load = "some")
                       => apps'[i].tree = "shown"]_vars

\* app i is a mounted NavigationApp whose container is in the document and
\* whose path is that of the page p
Live(as, p, i) ==
  /\ as[i].mounted
  /\ as[i].node # NoNode
  /\ as[i].mountPath = p

\* C30 as stated: when the host has put a search input into its navigation,
\* new or in place of an earlier one, and the observers of the controller
\* have run, a live NavigationApp has its input listener and value observer
\* on that element, and no more than one app has.
C30_AsStated ==
  [][(HostInput /\ input'.present)
       => /\ (\E i \in 1..Len(apps') : Live(apps', path', i))
               => (\E i \in 1..Len(apps') :
                     Live(apps', path', i) /\ apps'[i].bound = "current")
          /\ Cardinality({i \in 1..Len(apps') : apps'[i].bound = "current"})
               <= 1]_vars

\* the search filter is non-empty and a mounted NavigationApp is in search mode
Filtering ==
  /\ input.present
  /\ input.value # Empty
  /\ \E i \in 1..Len(apps) : apps[i].mounted /\ apps[i].isSearching

\* an injected tree is the one visible
TreeVisible == \E i \in 1..Len(apps) : apps[i].tree = "shown"

\* C31 as stated: where the host's nav has the category headers, they are
\* shown in every state in which the search filter is non-empty, interval
\* ticks included, and hidden in every state in which the filter is empty and
\* an injected tree is visible.
C31_AsStated ==
  HasHeaders(Cur) =>
    /\ Filtering => ~headersHidden
    /\ (input.value = Empty /\ TreeVisible) => headersHidden

(***************************************************************************)
(* Claims about teardown, checked under SpecTeardown                       *)
(***************************************************************************)

\* the cleanups of every NavigationApp have run
TornDown == apps # <<>> /\ \A i \in 1..Len(apps) : ~apps[i].mounted

\* C8: after the navigation view is torn down no callback of the controller
\* is left to fire: no 'input' listener on the search input, no
\* navigation-check interval, no label-cleaning observer.
C8_AsStated ==
  TornDown => /\ \A i \in 1..Len(apps) : apps[i].bound # "current"
              /\ checkInterval = 0
              /\ headerObservers = 0
\* C15: in every group of the output, of two consecutive items a then b,
\* a.sortOrder <= b.sortOrder, and when the sortOrders are equal a.displayName
\* does not compare after b.displayName.
C15_ItemsOrdered ==
  \A g \in 1..Len(nGroups) :
    \A i \in 1..(Len(nGroups[g].items) - 1) :
      LET a == nGroups[g].items[i]
          b == nGroups[g].items[i + 1]
      IN /\ a.sortOrder <= b.sortOrder
         /\ a.sortOrder = b.sortOrder
              => localeCompare(a.displayName, b.displayName) <= 0

\* a group of three: a hinted item, then two items of equal sortOrder and
\* different names that the listing had in the opposite order
C15_Witness ==
  /\ nPhase = "fetched"
  /\ Len(nAllowed) = 3
  /\ Len(nGroups) = 1
  /\ Len(nGroups[1].items) = 3
  /\ nGroups[1].items[1].sortOrder < nGroups[1].items[2].sortOrder
  /\ nGroups[1].items[2].sortOrder = nGroups[1].items[3].sortOrder
  /\ nGroups[1].items[2].displayName # nGroups[1].items[3].displayName
  /\ nAllowed[1] = nGroups[1].items[3]
  /\ nAllowed[2] = nGroups[1].items[2]

\* the smallest sortOrder among the items of a group
LeastOrder(group) ==
  CHOOSE m \in {group.items[i].sortOrder : i \in 1..Len(group.items)} :
    \A i \in 1..Len(group.items) : m <= group.items[i].sortOrder

\* the groups of the output that are not called General, in output order
OtherGroups == SelectSeq(nGroups, LAMBDA g : g.name # General)

\* C16: every group's sortOrder is the minimum sortOrder of its items, and the
\* groups other than 'General' stand in ascending sortOrder, groups of equal
\* sortOrder in the lexical order of their names.
C16_GroupsOrdered ==
  /\ \A g \in 1..Len(nGroups) : nGroups[g].sortOrder = LeastOrder(nGroups[g])
  /\ \A g \in 1..(Len(OtherGroups) - 1) :
       LET a == OtherGroups[g]
           b == OtherGroups[g + 1]
       IN /\ a.sortOrder <= b.sortOrder
          /\ a.sortOrder = b.sortOrder => localeCompare(a.name, b.name) < 0

\* two groups, neither called General, of equal sortOrder and in name order:
\* the first has two items and takes its sortOrder from the smaller one, the
\* listing began with the item of the second
C16_Witness ==
  /\ nPhase = "fetched"
  /\ Len(nGroups) = 2
  /\ Len(OtherGroups) = 2
  /\ Len(nGroups[1].items) = 2
  /\ nGroups[1].items[1].sortOrder < nGroups[1].items[2].sortOrder
  /\ nGroups[1].sortOrder = nGroups[2].sortOrder
  /\ nAllowed[1] = nGroups[2].items[1]

\* C17: whenever the output holds a group named 'General', that group is the
\* first element of the output.
C17_GeneralFirst ==
  \A g \in 1..Len(nGroups) : nGroups[g].name = General => g = 1

\* General with the largest sortOrder of three groups, its item last in the
\* listing, is listed first; the other two follow in ascending sortOrder
C17_Witness ==
  /\ nPhase = "fetched"
  /\ Len(nGroups) = 3
  /\ nGroups[1].name = General
  /\ nGroups[2].sortOrder < nGroups[3].sortOrder
  /\ nGroups[3].sortOrder < nGroups[1].sortOrder
  /\ nAllowed[3] = nGroups[1].items[1]

\* the items of the groups, group after group
RECURSIVE Concatenated(_)
Concatenated(groups) ==
  IF groups = <<>> THEN <<>>
  ELSE Head(groups).items \o Concatenated(Tail(groups))

\* grouping the concatenated items of the output gives the output
Regrouped ==
  LET again == organizeByGroups(Concatenated(nGroups))
  IN ~again.threw /\ again.groups = nGroups

\* C18: a second run of initialize on the same content types and permissions
\* leaves the groups, their order and the order of their items as the first
\* run gave them, and grouping the concatenated items of an output yields that
\* same output.
C18_DeterministicIdempotent ==
  /\ [][nPhase = "fetched" => nGroups' = nGroups]_vars
  /\ [](nPhase # "input" => Regrouped)

\* after the replay from the cache: two groups, one with two items that have
\* the same sortOrder and the same name
C18_Witness ==
  /\ nPhase = "replayed"
  /\ Len(nAllowed) = 3
  /\ Len(nGroups) = 2
  /\ \E g \in 1..2 :
       /\ Len(nGroups[g].items) = 2
       /\ nGroups[g].items[1].uid # nGroups[g].items[2].uid
       /\ nGroups[g].items[1].sortOrder = nGroups[g].items[2].sortOrder
       /\ nGroups[g].items[1].displayName = nGroups[g].items[2].displayName

\* the groups by name, their items by uid
ByUid(groups) ==
  [g \in 1..Len(groups) |->
     [name |-> groups[g].name,
      uids |-> [i \in 1..Len(groups[g].items) |-> groups[g].items[i].uid]]]

\* the rearrangements of a listing
Rearranged(listing) ==
  LET n == Len(listing)
      perms == {f \in [1..n -> 1..n] : \A i, j \in 1..n : f[i] = f[j] => i = j}
  IN {[i \in 1..n |-> listing[f[i]]] : f \in perms}

\* the groups fetchContentTypes builds from a listing under the permissions
\* on record
GroupsOf(listing) ==
  LET out == formatContentTypes(nDelimiter, [hasData |-> TRUE, data |-> listing])
      organized == organizeByGroups(allowed(nPermissions, out.list))
  IN IF organized.threw THEN <<>> ELSE organized.groups

\* C19 as stated: for every raw listing and every rearrangement of its
\* records, normalization followed by grouping yields the same groups in the
\* same order with the same items, by uid, in the same order.
C19_AsStated ==
  nPhase = "fetched" /\ nRaw.hasData =>
    \A l \in Rearranged(nRaw.data) : ByUid(GroupsOf(l)) = ByUid(nGroups)

\* a permission list that grants explorer.read on every descriptor of a list
GrantEvery(contentTypes) ==
  [i \in 1..Len(contentTypes) |->
     [action |-> ExplorerRead, subject |-> contentTypes[i].uid]]

\* the groups fetchContentTypes builds from the normalized descriptors when
\* every one of them is granted
GroupsAllGranted ==
  LET organized == organizeByGroups(allowed(GrantEvery(nOut.list), nOut.list))
  IN IF organized.threw THEN <<>> ELSE organized.groups

\* C20: with an empty permission set (none on record and the fetch failed or
\* brought none) the groups are those a permission set granting read on every
\* descriptor produces.
C20_FailOpen ==
  nPhase = "fetched" /\ nPermissions = <<>> => nGroups = GroupsAllGranted

\* the permission fetch failed, nothing was on record, and a listing with a
\* plugin content type and an api content type is shown in full
C20_Witness ==
  /\ nPhase = "fetched"
  /\ nPermissions = <<>>
  /\ ~nAnswer.ok
  /\ Len(nOut.list) = 2
  /\ startsWith(nOut.list[1].uid, NsPlugin)
  /\ startsWith(nOut.list[2].uid, NsApi)
  /\ Len(nGroups) = 2

\* the permission list holds a pair that lets the uid through: explorer.read
\* on the uid, or, for a uid of the plugin namespace, an action on the uid
\* whose name contains read or find
Grants(permissions, uid) ==
  \E k \in 1..Len(permissions) :
    /\ permissions[k].subject = uid
    /\ \/ permissions[k].action = ExplorerRead
       \/ /\ Len(uid) >= 8
          /\ \A c \in 1..8 : uid[c] = NsPlugin[c]
          /\ \/ includes(permissions[k].action, "read")
             \/ includes(permissions[k].action, "find")

\* C21: with a non-empty permission set a descriptor is retained iff the set
\* holds a granting pair for its uid, and no descriptor without such a pair
\* appears in any group.
C21_PermissionFilter ==
  nPhase = "fetched" /\ Len(nPermissions) > 0 =>
    /\ \A i \in 1..Len(nOut.list) :
         Count(nAllowed, nOut.list[i]) > 0
           <=> Grants(nPermissions, nOut.list[i].uid)
    /\ \A g \in 1..Len(nGroups) :
         \A i \in 1..Len(nGroups[g].items) :
           Grants(nPermissions, nGroups[g].items[i].uid)

\* a plugin content type let through by a find action, an api content type
\* let through by explorer.read, and an api content type with a read action
\* of another kind that is dropped
C21_Witness ==
  /\ nPhase = "fetched"
  /\ nPermissions = GrantSome
  /\ Len(nOut.list) = 3
  /\ Len(nAllowed) = 2
  /\ startsWith(nAllowed[1].uid, NsPlugin)
  /\ nAllowed[2].uid = <<"a", "p", "i", ":", ":", "a">>
  /\ nOut.list[3].uid = <<"a", "p", "i", ":", ":", "c">>
  /\ Len(nGroups) = 2

(***************************************************************************)
(* View runs: one NavigationApp from initialize to its renders             *)
(***************************************************************************)
\* uid, display name and kind of the content types of a view run: hinted
\* items of both kinds in one group, the single type carrying the smaller
\* hint, and a uid that is the beginning of another one, in another group
ViewTypes ==
  { <<<<"a", "p", "i", ":", ":", "a">>,
      <<"[", "2", "]", " ", "B", " ", "|", " ", "a">>, "collectionType">>,
    <<<<"a", "p", "i", ":", ":", "b">>,
      <<"[", "1", "]", " ", "B", " ", "|", " ", "s">>, "singleType">>,
    <<<<"a", "p", "i", ":", ":", "a", "b">>,
      <<"C", " ", "|", " ", "c">>, "collectionType">>,
    <<<<"a", "p", "i", ":", ":", "d">>,
      <<"C", " ", "|", " ", "d">>, "singleType">>,
    <<<<"a", "p", "i", ":", ":", "e">>,
      <<"[", "3", "]", " ", "B", " ", "|", " ", "e">>, "collectionType">> }

ViewRecords ==
  { [uid |-> t[1], apiID |-> ApiId,
     schema |-> [present |-> TRUE, displayName |-> t[2], kind |-> t[3]]] :
    t \in ViewTypes }

\* listings without a repeated record, of MaxListing records at most
ViewListings ==
  UNION {{l \in [1..n -> ViewRecords] :
            \A i, j \in 1..n : l[i] = l[j] => i = j} : n \in 0..MaxListing}

\* the admin home, and list views of three of the content types
ViewPaths ==
  { <<"/admin/">>,
    HrefCollection \o <<"a", "p", "i", ":", ":", "a">>,
    HrefCollection \o <<"a", "p", "i", ":", ":", "a", "b">>,
    HrefSingle \o <<"a", "p", "i", ":", ":", "b">> }

\* what the build and the /config answer say about the template: nothing,
\* each of the three variants, a value that is none of them
ViewConfigs ==
  {[env |-> NoValue, served |-> t] :
     t \in {NoValue, "accordion", "v5", "official", "fancy"}}
    \cup {[env |-> "v5", served |-> NoValue]}

ViewInit ==
  /\ CtlInit
  /\ template = "accordion"
  /\ path = HomePath
  /\ nPhase = "input"
  /\ nDelimiter = DefaultDelimiter
  /\ nRaw \in {[hasData |-> TRUE, data |-> l] : l \in ViewListings}
  /\ nOut = [threw |-> FALSE, list |-> <<>>]
  /\ nPermissions = <<>>
  /\ nAnswer = [ok |-> FALSE, list |-> <<>>]
  /\ nAllowed = <<>>
  /\ nGroups = <<>>
  /\ label = <<>>
  /\ cleanRuns = 0
  /\ vConfig \in ViewConfigs
  /\ vTemplate = NoValue
  /\ vPath \in ViewPaths
  /\ vSearching = FALSE
  /\ vTree = <<>>
  /\ vBefore = <<>>
  /\ inits = <<>>

\* initialize of a NavigationApp without cached content types, its requests
\* answered (the permission request failing): setTemplate, setGroups, and the
\* render they lead to
initialize ==
  /\ nPhase = "input"
  /\ LET out == formatContentTypes(nDelimiter, nRaw)
         allowedContentTypes == allowed(fetchAdminPermissions(nAnswer), out.list)
         organized == organizeByGroups(allowedContentTypes)
         groups == IF out.threw \/ organized.threw THEN nGroups
                   ELSE organized.groups
     IN /\ vTemplate' = getPluginConfig(vConfig)
        /\ nOut' = out
        /\ nAllowed' = (IF out.threw THEN nAllowed ELSE allowedContentTypes)
        /\ nGroups' = groups
        /\ vTree' = MountTree(vTemplate', groups, vPath, vSearching)
  /\ nPhase' = "fetched"
  /\ UNCHANGED <<nDelimiter, nRaw, nPermissions, nAnswer>>
  /\ UNCHANGED <<label, cleanRuns, vConfig, vPath, vSearching, vBefore>>
  /\ UNCHANGED inits
  /\ UNCHANGED ctlVars

\* the location changes and the NavigationApp renders on it (popstate, or the
\* 100 ms path poll): handleLocationChange
handleLocationChange ==
  /\ nPhase = "fetched"
  /\ \E p \in ViewPaths \ {vPath} :
       /\ vPath' = p
       /\ vTree' = (IF vTree = <<>> THEN <<>>
                    ELSE RenderTree(vTree, vTemplate, nGroups, p))
  /\ UNCHANGED <<label, cleanRuns, vConfig, vTemplate, vSearching, vBefore>>
  /\ UNCHANGED inits
  /\ UNCHANGED <<normVars, ctlVars>>

\* the button of a v5 section is clicked: setExpanded(!expanded)
toggleExpanded ==
  /\ Renderer(vTemplate) = "v5"
  /\ \E g \in 1..Len(vTree) :
       /\ ~vTree[g].asMain
       /\ vTree' = [vTree EXCEPT ![g].expanded = ~vTree[g].expanded]
  /\ UNCHANGED <<label, cleanRuns, vConfig, vTemplate, vPath, vSearching,
                 vBefore>>
  /\ UNCHANGED inits
  /\ UNCHANGED <<normVars, ctlVars>>

\* setIsSearching(true) and the render it leads to: the fragment replaces the
\* navigation, whose components unmount
searchBegins ==
  /\ nPhase = "fetched"
  /\ ~vSearching
  /\ vSearching' = TRUE
  /\ vBefore' = vTree
  /\ vTree' = <<>>
  /\ UNCHANGED <<label, cleanRuns, vConfig, vTemplate, vPath>>
  /\ UNCHANGED inits
  /\ UNCHANGED <<normVars, ctlVars>>

\* setIsSearching(false) and the render it leads to: the navigation mounts anew
searchEnds ==
  /\ nPhase = "fetched"
  /\ vSearching
  /\ vSearching' = FALSE
  /\ vTree' = MountTree(vTemplate, nGroups, vPath, FALSE)
  /\ vBefore' = <<>>
  /\ UNCHANGED <<label, cleanRuns, vConfig, vTemplate, vPath>>
  /\ UNCHANGED inits
  /\ UNCHANGED <<normVars, ctlVars>>

ViewNext ==
  \/ initialize
  \/ handleLocationChange
  \/ toggleExpanded
  \/ searchBegins
  \/ searchEnds

SpecView == ViewInit /\ [][ViewNext]_vars

(***************************************************************************)
(* Claims about the rendered navigation, checked under SpecView            *)
(***************************************************************************)
\* the item of group g with the given uid (in a view run a group holds a uid
\* once)
ItemOf(g, uid) ==
  nGroups[g].items[CHOOSE i \in 1..Len(nGroups[g].items) :
                     nGroups[g].items[i].uid = uid]

\* the position of the uid among the items of group g
PlaceOf(g, uid) ==
  CHOOSE i \in 1..Len(nGroups[g].items) : nGroups[g].items[i].uid = uid

C23_AsStated ==
  \A g \in 1..Len(vTree) :
    \A k, m \in 1..Len(vTree[g].links) :
      LET a == ItemOf(g, vTree[g].links[k].uid)
          b == ItemOf(g, vTree[g].links[m].uid)
      IN Hinted(a) /\ Hinted(b) /\ a.sortOrder < b.sortOrder => k < m

Variants == {"accordion", "v5", "official"}

\* the variant a configuration without a template selects
WhenMissing ==
  IF vConfig.env \in Variants THEN vConfig.env ELSE "accordion"

\* C24 as stated: a served template that names one of the three variants
\* selects that variant, and every other value, unknown or missing, selects
\* the one variant that a missing value selects.
C24_AsStated ==
  \A g \in 1..Len(vTree) :
    IF vConfig.served \in Variants
    THEN vTree[g].variant = vConfig.served
    ELSE vTree[g].variant = WhenMissing

\* C25: in every variant and for every path, a link is marked active iff the
\* uid of its item occurs in the current path as a substring.
C25_ActiveBySubstring ==
  \A g \in 1..Len(vTree) :
    \A k \in 1..Len(vTree[g].links) :
      vTree[g].links[k].active <=> Occurs(vPath, vTree[g].links[k].uid)

\* the path is the list view of api::ab: the link of api::ab is active, and
\* so is the link of api::a, whose href the path is not
C25_Witness ==
  /\ vPath = HrefCollection \o <<"a", "p", "i", ":", ":", "a", "b">>
  /\ Len(vTree) = 2
  /\ \E g, h \in 1..2 :
       /\ g # h
       /\ \E k \in 1..Len(vTree[g].links) :
            /\ vTree[g].links[k].uid = <<"a", "p", "i", ":", ":", "a">>
            /\ vTree[g].links[k].active
       /\ \E k \in 1..Len(vTree[h].links) :
            /\ vTree[h].links[k].uid = <<"a", "p", "i", ":", ":", "a", "b">>
            /\ vTree[h].links[k].active

\* the variants whose groups open and close
Collapsible == {"accordion", "v5"}

\* section g of a tree holds a link that the path makes active
HoldsActive(tree, pathname, g) ==
  \E k \in 1..Len(tree[g].links) :
    /\ Occurs(pathname, tree[g].links[k].uid)
    /\ tree[g].links[k].active

\* a step that mounts the navigation of a collapsible variant
Mounts ==
  /\ vTree = <<>>
  /\ vTree' # <<>>
  /\ vTree'[1].variant \in Collapsible

\* C28 as stated: when a collapsible variant mounts, every group that holds an
\* item whose uid the path contains is expanded with that item active, and
\* every group without an active item is collapsed.
C28_AsStated ==
  [][Mounts =>
       \A g \in 1..Len(vTree') :
         /\ (\E k \in 1..Len(vTree'[g].links) :
               Occurs(vPath', vTree'[g].links[k].uid))
              => vTree'[g].expanded /\ HoldsActive(vTree', vPath', g)
         /\ ~(\E k \in 1..Len(vTree'[g].links) : vTree'[g].links[k].active)
              => ~vTree'[g].expanded]_vars

\* the step is the user's toggle of section g and nothing else
TogglesOnly(g) ==
  /\ vTree # <<>>
  /\ vTree' = [vTree EXCEPT ![g].expanded = ~vTree[g].expanded]
  /\ vPath' = vPath
  /\ vSearching' = vSearching

\* C29 as stated: in a collapsible variant a group that is expanded stays
\* expanded over every step that is not the user's toggle of that group: a
\* render or a route change keeps it open, and a group that was open when a
\* search began is open again when the search has ended.
C29_AsStated ==
  [][/\ \A g \in 1..Len(vTree) :
          ( /\ vTree[g].variant \in Collapsible
            /\ vTree[g].expanded
            /\ vTree' # <<>>
            /\ ~TogglesOnly(g) ) => vTree'[g].expanded
     /\ \A g \in 1..Len(vBefore) :
          ( /\ vBefore[g].variant \in Collapsible
            /\ vBefore[g].expanded
            /\ vSearching /\ ~vSearching' ) => vTree'[g].expanded]_vars

\* the links of a tree that are marked active, as (section, position) pairs
ActiveLinks(tree) ==
  {<<g, k>> \in (1..Len(tree)) \X (1..MaxListing) :
     k <= Len(tree[g].links) /\ tree[g].links[k].active}

\* the sections with a disclosure control that are open
OpenGroups(tree) ==
  {g \in 1..Len(tree) : tree[g].expanded /\ ~tree[g].asMain}

\* C34 as stated: the uids of a listing being pairwise distinct, at most one
\* rendered link is marked active, and a mount of a collapsible variant
\* leaves at most one group expanded.
C34_AsStated ==
  /\ [](Cardinality(ActiveLinks(vTree)) <= 1)
  /\ [][Mounts => Cardinality(OpenGroups(vTree')) <= 1]_vars

(***************************************************************************)
(* Overlapping initializations: several NavigationApp instances run        *)
(* initialize at once (both startup paths render one, and the interval     *)
(* renders another when the container is gone), each call advancing from   *)
(* await to await, all sharing window.strapiPermissions and                *)
(* window.strapiContentTypes.                                              *)
(***************************************************************************)
MaxInits == 2

\* the listings the content-type request answers: records of api::a, api::b
\* and plugin::u
OverlapListings ==
  LET records ==
        { r \in GroupRecords :
            r.uid \in { <<"a", "p", "i", ":", ":", "a">>,
                        <<"a", "p", "i", ":", ":", "b">>,
                        <<"p", "l", "u", "g", "i", "n", ":", ":", "u">> } }
  IN UNION {[1..n -> records] : n \in 0..MaxListing}

\* nothing is cached yet; nAnswer holds the permission list of the user, which
\* a request that does not fail answers
OverlapInit ==
  /\ CtlInit
  /\ template = "accordion"
  /\ path = HomePath
  /\ nPhase = "input"
  /\ nDelimiter = DefaultDelimiter
  /\ nRaw \in {[hasData |-> TRUE, data |-> l] : l \in OverlapListings}
  /\ nOut = [threw |-> FALSE, list |-> <<>>]
  /\ nPermissions = <<>>
  /\ nAnswer \in {[ok |-> TRUE, list |-> l] : l \in PermissionLists}
  /\ nAllowed = <<>>
  /\ nGroups = <<>>
  /\ label = <<>>
  /\ cleanRuns = 0
  /\ vConfig = [env |-> NoValue, served |-> NoValue]
  /\ vTemplate = NoValue
  /\ vPath = <<>>
  /\ vSearching = FALSE
  /\ vTree = <<>>
  /\ vBefore = <<>>
  /\ inits = <<>>

OverlapUnchanged ==
  /\ UNCHANGED <<nPhase, nDelimiter, nRaw, nOut, nAnswer, nGroups>>
  /\ UNCHANGED <<label, cleanRuns, vConfig, vTemplate, vPath, vSearching,
                 vTree, vBefore>>
  /\ UNCHANGED ctlVars

\* a NavigationApp mounts: its effect calls initialize, which awaits
\* getPluginConfig
MountInitialize ==
  /\ Len(inits) < MaxInits
  /\ inits' = Append(inits, [pc |-> "config", contentTypes |-> <<>>,
                             groups |-> <<>>])
  /\ UNCHANGED <<nPermissions, nAllowed>>
  /\ OverlapUnchanged

\* getPluginConfig resolves: the cache is replayed when it holds content
\* types, else fetchContentTypes requests the listing
ConfigResolves(i) ==
  /\ inits[i].pc = "config"
  /\ inits' = [inits EXCEPT
       ![i] = IF Len(nAllowed) > 0
              THEN [@ EXCEPT !.pc = "done",
                             !.groups = IF organizeByGroups(nAllowed).threw
                                        THEN @
                                        ELSE organizeByGroups(nAllowed).groups]
              ELSE [@ EXCEPT !.pc = "listing"]]
  /\ UNCHANGED <<nPermissions, nAllowed>>
  /\ OverlapUnchanged

\* what fetchContentTypes does once it has the permissions: the filter, the
\* cache, the groups (organizeByGroups throwing ends in the catch, the cache
\* written)
StoreAllowed(i, permissions, contentTypes) ==
  LET allowedContentTypes == allowed(permissions, contentTypes)
      organized == organizeByGroups(allowedContentTypes)
  IN /\ nAllowed' = allowedContentTypes
     /\ inits' = [inits EXCEPT
          ![i] = [@ EXCEPT !.pc = "done",
                           !.contentTypes = contentTypes,
                           !.groups = IF organized.threw THEN @
                                      ELSE organized.groups]]

\* the listing request resolves: formatContentTypes, then the permissions are
\* taken from window.strapiPermissions or requested
ListingResolves(i) ==
  /\ inits[i].pc = "listing"
  /\ LET out == formatContentTypes(nDelimiter, nRaw)
     IN IF out.threw
        THEN /\ inits' = [inits EXCEPT ![i].pc = "done"]
             /\ UNCHANGED nAllowed
        ELSE IF Len(nPermissions) > 0
        THEN StoreAllowed(i, nPermissions, out.list)
        ELSE /\ inits' = [inits EXCEPT ![i].pc = "permissions",
                                       ![i].contentTypes = out.list]
             /\ UNCHANGED nAllowed
  /\ UNCHANGED nPermissions
  /\ OverlapUnchanged

\* the permissions request of call i ends, answered or failed:
\* fetchAdminPermissions stores an answer in window.strapiPermissions
PermissionsResolve(i) ==
  /\ inits[i].pc = "permissions"
  /\ \E answer \in {nAnswer, [ok |-> FALSE, list |-> <<>>]} :
       /\ nPermissions' = (IF answer.ok THEN answer.list ELSE nPermissions)
       /\ StoreAllowed(i, fetchAdminPermissions(answer), inits[i].contentTypes)
  /\ OverlapUnchanged

OverlapNext ==
  \/ MountInitialize
  \/ \E i \in 1..Len(inits) : ConfigResolves(i)
  \/ \E i \in 1..Len(inits) : ListingResolves(i)
  \/ \E i \in 1..Len(inits) : PermissionsResolve(i)

SpecOverlap == OverlapInit /\ [][OverlapNext]_vars

\* C33 as stated: in every state in which window.strapiPermissions is
\* non-empty, every descriptor of window.strapiContentTypes is granted by it,
\* whatever the order in which overlapping initializations complete.
C33_AsStated ==
  Len(nPermissions) > 0 =>
    \A k \in 1..Len(nAllowed) : Grants(nPermissions, nAllowed[k].uid)

====
